---- MODULE Spec2Model ----
(***************************************************************************)
(* Verification model of caddy-site-manager (SQLite-backed site manager).  *)
(*                                                                         *)
(* Texts (site files, pool files, domains, paths, user names, sizes) are   *)
(* sequences of strings; the text itself is the concatenation of the       *)
(* elements.  Values that the code inspects character by character         *)
(* (domains, paths, sizes) are sequences of one-character strings; the     *)
(* fixed parts of the templates are literal chunks, cut so that every      *)
(* keyword the code searches for is a chunk of its own.                    *)
(***************************************************************************)
EXTENDS Integers, Sequences, FiniteSets, TLC

VARIABLES sites, basic_auths, nextId, caddyFiles, symlinks, poolFiles, docRoots,
          last, scope, poolRun, spliceRun, tripRun, migRun, raceRun, fnRun

vars == <<sites, basic_auths, nextId, caddyFiles, symlinks, poolFiles, docRoots,
          last, scope, poolRun, spliceRun, tripRun, migRun, raceRun, fnRun>>

mainVars == <<sites, basic_auths, nextId, caddyFiles, symlinks, poolFiles, docRoots, last>>

(***************************************************************************)
(* Bounds of the model.                                                    *)
(***************************************************************************)
MaxDomainLen == 3
MaxSites == 2
MaxAuthRows == 2

(***************************************************************************)
(* Generic helpers on sequences.                                           *)
(***************************************************************************)
NotFound == 0 - 1

RECURSIVE SeqsUpTo(_, _)
SeqsUpTo(S, n) ==
  IF n = 0 THEN {<<>>}
  ELSE LET shorter == SeqsUpTo(S, n - 1)
       IN shorter \cup {Append(s, c) : s \in {t \in shorter : Len(t) = n - 1}, c \in S}

Range(s) == {s[i] : i \in 1..Len(s)}

\* strings.Index(text, kw): position of the first chunk equal to kw, or -1
Index(text, kw) ==
  IF \E i \in 1..Len(text) : text[i] = kw
  THEN CHOOSE i \in 1..Len(text) : text[i] = kw /\ \A j \in 1..(i - 1) : text[j] # kw
  ELSE NotFound

\* strings.LastIndex(text, kw): position of the last chunk equal to kw, or -1
LastIndex(text, kw) ==
  IF \E i \in 1..Len(text) : text[i] = kw
  THEN CHOOSE i \in 1..Len(text) : text[i] = kw /\ \A j \in (i + 1)..Len(text) : text[j] # kw
  ELSE NotFound

\* strings.HasPrefix / strings.HasSuffix for a one-character affix
HasPrefix(s, c) == Len(s) > 0 /\ s[1] = c
HasSuffix(s, c) == Len(s) > 0 /\ s[Len(s)] = c

RECURSIVE Flatten(_)
Flatten(ss) == IF ss = <<>> THEN <<>> ELSE Head(ss) \o Flatten(Tail(ss))

\* byte value of the characters the model uses (SQLite BINARY collation)
Code(c) ==
  CASE c = "*" -> 42 [] c = "-" -> 45 [] c = "." -> 46 [] c = "/" -> 47
    [] c = "1" -> 49 [] c = "2" -> 50 [] c = "B" -> 66 [] c = "G" -> 71
    [] c = "M" -> 77 [] c = "a" -> 97 [] c = "b" -> 98 [] c = "c" -> 99
    [] c = "g" -> 103 [] c = "m" -> 109 [] c = "u" -> 117 [] c = "v" -> 118
    [] c = "x" -> 120 [] OTHER -> 0

RECURSIVE StrLess(_, _)
StrLess(a, b) ==
  IF b = <<>> THEN FALSE
  ELSE IF a = <<>> THEN TRUE
  ELSE IF Code(a[1]) # Code(b[1]) THEN Code(a[1]) < Code(b[1])
  ELSE StrLess(Tail(a), Tail(b))

(***************************************************************************)
(* Pool identifier.                                                        *)
(***************************************************************************)
DomainAlphabet == {"a", "b", "-", "."}
Alnum == {"a", "b", "c", "g", "m", "u", "v", "x", "1", "2", "B", "G", "M"}

\* ^[a-zA-Z0-9][a-zA-Z0-9-\.]*[a-zA-Z0-9]$ and 0 < len <= 253
isValidDomain(domain) ==
  /\ Len(domain) >= 2
  /\ domain[1] \in Alnum
  /\ domain[Len(domain)] \in Alnum
  /\ \A i \in 1..Len(domain) : domain[i] \in Alnum \cup {"-", "."}

ReplaceAll(s, old, new) == [i \in 1..Len(s) |-> IF s[i] = old THEN new ELSE s[i]]

generatePoolName(domain) ==
  LET poolName == ReplaceAll(domain, ".", "_")
  IN ReplaceAll(poolName, "-", "_")

ValidDomains == {d \in SeqsUpTo(DomainAlphabet, MaxDomainLen) : isValidDomain(d)}

\* generateDBName: as the pool name, prefixed when it starts with a digit
generateDBName(domain) ==
  LET dbName == ReplaceAll(ReplaceAll(domain, ".", "_"), "-", "_")
  IN IF Len(dbName) > 0 /\ dbName[1] \in {"1", "2"} THEN <<"wp_">> \o dbName ELSE dbName

(***************************************************************************)
(* Templates (initTemplates).  A site is a record with the fields of       *)
(* database.Site that the templates and the operations read.               *)
(***************************************************************************)
KwUpload == "php_admin_value[upload_max_filesize]"
KwPost == "php_admin_value[post_max_size]"
KwMaxSize == "max_size"
KwRequestBody == "request_body"
KwTryFiles == "try_files"
KwFastcgi == "php_fastcgi"
KwFileServer == "file_server"
KwRoute == "route"
Brace == "}"
NL == "\n"

SecurityHeaders ==
  "\n\t# Security headers\n\theader {\n\t\t# Remove server info\n\t\t-Server\n\t\t\n\t\t# Security headers\n\t\tX-Content-Type-Options nosniff\n\t\tX-XSS-Protection \"1; mode=block\"\n\t\tReferrer-Policy strict-origin-when-cross-origin\n\t}\n"

TemplateTail(site) ==
  <<SecurityHeaders, "\n\t# File server for static files\n\t", KwFileServer, NL, Brace,
    "\n\nwww.">> \o site.Domain \o <<" {\n\tredir https://">> \o site.Domain
  \o <<"{uri}\n", Brace, NL>>

phpPoolTemplate(site) ==
  <<"[">> \o site.PoolName
  \o <<"]\nuser = www-data\ngroup = www-data\nlisten = /run/php/php">> \o site.PHPVersion
  \o <<"-fpm-">> \o site.PoolName
  \o <<".sock\nlisten.owner = www-data\nlisten.group = www-data\nlisten.mode = 0660\n\n; Process manager settings optimized for PHP\npm = dynamic\npm.max_children = 10\npm.start_servers = 3\npm.min_spare_servers = 2\npm.max_spare_servers = 5\npm.max_requests = 1000\n\n; PHP settings with configurable upload size\n",
       KwUpload, " = ">> \o site.MaxUpload
  \o <<NL, KwPost, " = ">> \o site.MaxUpload
  \o <<NL, "php_admin_value[max_execution_time] = 300\nphp_admin_value[max_input_time] = 300\nphp_admin_value[memory_limit] = 512M\nphp_admin_value[max_file_uploads] = 50\n\n; General PHP optimizations\nphp_admin_value[max_input_vars] = 5000\nphp_admin_value[max_input_nesting_level] = 64\n\n; Security settings\nphp_admin_flag[allow_url_fopen] = on\nphp_admin_flag[allow_url_include] = off\nphp_admin_flag[expose_php] = off\n\n; Error handling\nphp_admin_flag[display_errors] = off\nphp_admin_flag[log_errors] = on\nphp_admin_value[error_log] = /var/log/php/">>
  \o site.PoolName
  \o <<"-error.log\n\n; Session settings\nphp_admin_value[session.save_path] = /var/lib/php/sessions\nphp_admin_flag[session.cookie_httponly] = on\n\n; OPcache settings for better performance\nphp_admin_flag[opcache.enable] = on\nphp_admin_value[opcache.memory_consumption] = 128\nphp_admin_value[opcache.interned_strings_buffer] = 8\nphp_admin_value[opcache.max_accelerated_files] = 4000\nphp_admin_flag[opcache.validate_timestamps] = on\nphp_admin_value[opcache.revalidate_freq] = 60\n">>

TemplateHead(kind, site) ==
  <<"# ", kind, " site: ">> \o site.Domain \o <<" (Custom PHP-FPM Pool: ">> \o site.PoolName
  \o <<")\n">> \o site.Domain \o <<" {\n\troot * ">> \o site.DocumentRoot
  \o <<"\n\tencode gzip\n\n\t# Set request body limit to match PHP settings\n\t",
       KwRequestBody, " {\n\t\t", KwMaxSize, " ">> \o site.MaxUpload \o <<NL, "\t}\n">>

FastcgiBlock(site) ==
  <<KwFastcgi, " unix//run/php/php">> \o site.PHPVersion \o <<"-fpm-">> \o site.PoolName
  \o <<".sock {\n\t\tindex index.php\n\t}\n">>

caddyTemplate(site) ==
  TemplateHead("PHP", site)
  \o <<"\n\t# Enable clean URLs for PHP files (removes .php extension requirement)\n\t",
       KwTryFiles, " {path} {path}.php\n", "\n\t# PHP processing using custom PHP pool\n\t">>
  \o FastcgiBlock(site)
  \o TemplateTail(site)

wpTemplate(site) ==
  TemplateHead("WordPress", site)
  \o <<"\n\t# PHP processing using custom PHP pool\n\t">>
  \o FastcgiBlock(site)
  \o <<"\n\t# WordPress pretty permalinks\n\t", KwTryFiles, " {path} {path}/ /index.php?{query}\n",
       "\n\t# Deny access to sensitive WordPress files\n\t@forbidden {\n\t\tpath *.sql\n\t\tpath /wp-config.php\n\t\tpath /wp-content/debug.log\n\t\tpath /.htaccess\n\t\tpath /wp-content/uploads/*.php\n\t}\n\trespond @forbidden 403\n">>
  \o TemplateTail(site)

\* tmpl.Execute with the template chosen by site.IsWordPress
ExecuteSiteTemplate(site) == IF site.IsWordPress THEN wpTemplate(site) ELSE caddyTemplate(site)

(***************************************************************************)
(* addBasicAuthToConfig.  auths is the list GetBasicAuths returned; order  *)
(* is the order in which the range over the authsByPath map yields its     *)
(* keys, which the Go runtime leaves unspecified.                          *)
(***************************************************************************)
Perms(S) == {s \in [1..Cardinality(S) -> S] : \A x \in S : \E i \in 1..Cardinality(S) : s[i] = x}

PathsOf(auths) == {auths[i].Path : i \in 1..Len(auths)}

MapOrders(auths) == Perms(PathsOf(auths))

RECURSIVE SelectPath(_, _)
SelectPath(auths, path) ==
  IF auths = <<>> THEN <<>>
  ELSE IF Head(auths).Path = path THEN <<Head(auths)>> \o SelectPath(Tail(auths), path)
  ELSE SelectPath(Tail(auths), path)

StanzaHeader == " {\n\t\tbasic_auth {"
StanzaClose == "\n\t\t}\n\t}"
UserIndent == "\n\t\t\t"
SpliceEnd == "\n\t"

UserLine(auth) == <<UserIndent>> \o auth.Username \o <<" ">> \o auth.Password

RouteBlock(path, pathAuths) ==
  LET pathPattern == IF HasSuffix(path, "*") THEN path ELSE path \o <<"*">>
  IN <<"\n\t", KwRoute, " ">> \o pathPattern \o <<StanzaHeader>>
     \o Flatten([i \in 1..Len(pathAuths) |-> UserLine(pathAuths[i])])
     \o <<StanzaClose>>

\* the search for the insertion point with php_fastcgi tried before try_files
insertIndexOfFastcgiFirst(config) ==
  IF Index(config, KwFastcgi) # NotFound THEN Index(config, KwFastcgi)
  ELSE IF Index(config, KwTryFiles) # NotFound THEN Index(config, KwTryFiles)
  ELSE IF Index(config, KwFileServer) # NotFound THEN Index(config, KwFileServer)
  ELSE LastIndex(config, Brace)

insertIndexOf(config) ==
  IF Index(config, KwTryFiles) # NotFound THEN Index(config, KwTryFiles)
  ELSE IF Index(config, KwFastcgi) # NotFound THEN Index(config, KwFastcgi)
  ELSE IF Index(config, KwFileServer) # NotFound THEN Index(config, KwFileServer)
  ELSE LastIndex(config, Brace)

\* a splice that writes one block per rule instead of one per path
addBasicAuthToConfigPerRule(config, auths, order) ==
  LET insertIndex == insertIndexOf(config)
      authBlocks == Flatten([i \in 1..Len(auths) |-> RouteBlock(auths[i].Path, <<auths[i]>>)])
  IN SubSeq(config, 1, insertIndex - 1) \o authBlocks \o <<SpliceEnd>>
     \o SubSeq(config, insertIndex, Len(config))

addBasicAuthToConfig(config, auths, order) ==
  LET insertIndex == insertIndexOf(config)
      authBlocks == Flatten([i \in 1..Len(order) |->
                               RouteBlock(order[i], SelectPath(auths, order[i]))])
  IN SubSeq(config, 1, insertIndex - 1) \o authBlocks \o <<SpliceEnd>>
     \o SubSeq(config, insertIndex, Len(config))

(***************************************************************************)
(* The state an operation works on, as one record: the two tables of the   *)
(* store, the files, and the outcome of the running invocation (external   *)
(* commands invoked so far, error returned).                               *)
(***************************************************************************)
St ==
  [sites |-> sites, basic_auths |-> basic_auths, nextId |-> nextId,
   caddyFiles |-> caddyFiles, symlinks |-> symlinks, poolFiles |-> poolFiles,
   docRoots |-> docRoots, calls |-> <<>>, err |-> "", siteId |-> 0]

Fail(s, msg) == [s EXCEPT !.err = msg]

\* the early return after a failed step: `if err != nil { return err }`
Then(s, Step(_)) == IF s.err # "" THEN s ELSE Step(s)
Invoke(s, cmd) == [s EXCEPT !.calls = Append(@, cmd)]

\* an external command: recorded, and failing when it is the one the environment fails
Exec(s, cmd, failAt, msg) ==
  IF failAt = cmd THEN Fail(Invoke(s, cmd), msg) ELSE Invoke(s, cmd)

WriteFile(files, path, content) == [p \in DOMAIN files \cup {path} |-> IF p = path THEN content ELSE files[p]]
RemoveFile(files, path) == [p \in DOMAIN files \ {path} |-> files[p]]

ConfigPHPVersion == <<"8.2">>
DefaultMaxUpload == <<"2", "5", "6", "M">>

poolConfigFile(site) ==
  <<"/etc/php/">> \o site.PHPVersion \o <<"/fpm/pool.d/">> \o site.PoolName \o <<".conf">>

(***************************************************************************)
(* database.DB                                                             *)
(***************************************************************************)
\* NewDB opens the connection with the bare file path: SQLite enforces foreign
\* keys (and so ON DELETE CASCADE) only on connections that switch them on
ForeignKeys == FALSE

SiteExists(s, domain) == \E x \in s.sites : x.Domain = domain

GetSite(s, domain) == CHOOSE x \in s.sites : x.Domain = domain

DBCreateSite(s, site) ==
  IF SiteExists(s, site.Domain) THEN Fail(s, "failed to create site")
  ELSE [s EXCEPT !.sites = @ \cup {[site EXCEPT !.ID = s.nextId]},
                 !.nextId = @ + 1,
                 !.siteId = s.nextId]

DBUpdateSite(s, site) ==
  [s EXCEPT !.sites = {IF x.Domain = site.Domain THEN [site EXCEPT !.ID = x.ID] ELSE x : x \in @}]

DBDeleteSite(s, domain) ==
  LET gone == {x.ID : x \in {y \in s.sites : y.Domain = domain}}
  IN [s EXCEPT !.sites = {x \in @ : x.Domain # domain},
               !.basic_auths = IF ForeignKeys THEN {a \in @ : a.SiteID \notin gone} ELSE @]

\* the insert as INSERT OR REPLACE: a duplicate replaces the row it collides with
DBCreateBasicAuthReplacing(s, auth) ==
  [s EXCEPT !.basic_auths =
     {a \in @ : ~(a.SiteID = auth.SiteID /\ a.Path = auth.Path /\ a.Username = auth.Username)}
     \cup {auth}]

DBCreateBasicAuth(s, auth) ==
  IF \E a \in s.basic_auths :
       a.SiteID = auth.SiteID /\ a.Path = auth.Path /\ a.Username = auth.Username
  THEN Fail(s, "failed to store basic auth in database")
  ELSE [s EXCEPT !.basic_auths = @ \cup {auth}]

\* the delete without the path in its WHERE clause
DBDeleteBasicAuthsForSite(s, siteID, path) ==
  [s EXCEPT !.basic_auths = {a \in @ : a.SiteID # siteID}]

DBDeleteBasicAuthsForPath(s, siteID, path) ==
  [s EXCEPT !.basic_auths = {a \in @ : ~(a.SiteID = siteID /\ a.Path = path)}]

\* ORDER BY path, username
AuthLess(a, b) == StrLess(a.Path, b.Path) \/ (a.Path = b.Path /\ StrLess(a.Username, b.Username))

RECURSIVE SortAuths(_)
SortAuths(rows) ==
  IF rows = {} THEN <<>>
  ELSE LET first == CHOOSE a \in rows : \A b \in rows \ {a} : AuthLess(a, b)
       IN <<first>> \o SortAuths(rows \ {first})

GetBasicAuths(s, siteID) == SortAuths({a \in s.basic_auths : a.SiteID = siteID})

(***************************************************************************)
(* SQLiteSiteManager: helpers.  env.failAt names the external command that *)
(* fails in this invocation (or "none"); env.declineAt names the prompt    *)
(* the operator answers with no (or "none").                               *)
(***************************************************************************)
restartPHPFPM(s, dry, env) ==
  IF dry THEN s
  ELSE Exec(s, "systemctl restart php-fpm", env.failAt, "failed to restart PHP-FPM")

reloadCaddy(s, dry, env) ==
  IF dry THEN s
  ELSE Exec(s, "systemctl reload caddy", env.failAt, "failed to reload Caddy")

validateAndReloadCaddy(s, dry, env) ==
  IF dry THEN s
  ELSE LET s1 == Exec(s, "caddy validate", env.failAt, "caddy configuration validation failed")
       IN Then(s1, LAMBDA x : reloadCaddy(x, dry, env))

checkDatabaseConflicts(s, site, dry, env) ==
  IF dry THEN s
  ELSE
    LET s1 == Exec(s, "mysql db-exists", env.failAt, "failed to check database existence")
        s2 == Then(s1, LAMBDA x :
                IF ~env.dbExists THEN x
                ELSE IF env.declineAt = "db" THEN Fail(x, "aborting site setup")
                ELSE Exec(x, "mysql drop-db", env.failAt, "failed to drop existing database"))
        s3 == Then(s2, LAMBDA x : Exec(x, "mysql user-exists", env.failAt, "failed to check database user existence"))
    IN Then(s3, LAMBDA x :
              IF ~env.userExists \/ env.declineAt = "user" THEN x
              ELSE Exec(x, "mysql drop-user", env.failAt, "failed to drop existing database user"))

checkPhysicalConflicts(s, site, dry, env) ==
  LET s1 == IF site.DocumentRoot \in s.docRoots /\ ~dry
            THEN IF env.declineAt = "dir" THEN Fail(s, "aborting site setup")
                 ELSE [s EXCEPT !.docRoots = @ \ {site.DocumentRoot}]
            ELSE s
      s2 == Then(s1, LAMBDA x :
              IF site.Domain \in DOMAIN x.caddyFiles /\ ~dry
              THEN IF env.declineAt = "config" THEN Fail(x, "aborting site setup")
                   ELSE [x EXCEPT !.caddyFiles = RemoveFile(@, site.Domain),
                                  !.symlinks = @ \ {site.Domain}]
              ELSE x)
  IN Then(s2, LAMBDA x :
            IF site.IsWordPress THEN checkDatabaseConflicts(x, site, dry, env) ELSE x)

createPHPFPMPool(s, site, dry, env) ==
  IF dry THEN s
  ELSE LET s1 == Exec(s, "chown", env.failAt, "failed to set log directory ownership")
       IN Then(s1, LAMBDA x : [x EXCEPT !.poolFiles = WriteFile(@, poolConfigFile(site), phpPoolTemplate(site))])

createSiteDirectory(s, site, dry) ==
  IF dry THEN s ELSE [s EXCEPT !.docRoots = @ \cup {site.DocumentRoot}]

\* index.php is written into the document root; the model keeps the directory only
createBasicPHPSite(s, site, dry) == s

createWordPressSite(s, site, dry, env) ==
  IF dry THEN s
  ELSE IF env.failAt = "stat wordpress-template" THEN Fail(s, "WordPress template not found")
  ELSE LET s1 == Exec(s, "cp wordpress-template", env.failAt, "failed to copy WordPress template")
           s2 == Then(s1, LAMBDA x : Exec(x, "mysql setup", env.failAt, "failed to execute database query"))
       IN Then(s2, LAMBDA x : Exec(x, "http salts", env.failAt, "failed to get WordPress salts"))

setPermissions(s, site, dry, env) ==
  IF dry THEN s ELSE Exec(s, "chown -R", env.failAt, "failed to set ownership")

generateCaddyConfig(s, site, dry) ==
  IF dry THEN s
  ELSE [s EXCEPT !.caddyFiles = WriteFile(@, site.Domain, ExecuteSiteTemplate(site))]

\* the order in which the map of paths is ranged over, taken from env.mapOrder
OrderOf(auths, mapOrder) ==
  LET keep == {i \in 1..Len(mapOrder) : mapOrder[i] \in PathsOf(auths)}
      RECURSIVE Pick(_)
      Pick(n) == IF n > Len(mapOrder) THEN <<>>
                 ELSE IF n \in keep THEN <<mapOrder[n]>> \o Pick(n + 1) ELSE Pick(n + 1)
  IN Pick(1)

\* regenerateCaddyConfig that writes the base template without the stanzas
regenerateCaddyConfigBase(s, siteID, configFile, dry, env) ==
  IF ~\E x \in s.sites : x.ID = siteID THEN Fail(s, "site with ID not found")
  ELSE LET targetSite == CHOOSE x \in s.sites : x.ID = siteID
           siteWithAuth == GetSite(s, targetSite.Domain)
       IN IF dry THEN s
          ELSE [s EXCEPT !.caddyFiles = WriteFile(@, configFile, ExecuteSiteTemplate(siteWithAuth))]

regenerateCaddyConfig(s, siteID, configFile, dry, env) ==
  IF ~\E x \in s.sites : x.ID = siteID THEN Fail(s, "site with ID not found")
  ELSE LET targetSite == CHOOSE x \in s.sites : x.ID = siteID
           siteWithAuth == GetSite(s, targetSite.Domain)
           auths == GetBasicAuths(s, siteWithAuth.ID)
           baseConfig == ExecuteSiteTemplate(siteWithAuth)
           config == IF Len(auths) > 0
                     THEN addBasicAuthToConfig(baseConfig, auths, OrderOf(auths, env.mapOrder))
                     ELSE baseConfig
       IN IF dry THEN s
          ELSE [s EXCEPT !.caddyFiles = WriteFile(@, configFile, config)]

removePHPFPMPool(s, site, dry, env) ==
  IF poolConfigFile(site) \in DOMAIN s.poolFiles
  THEN IF dry THEN s
       ELSE restartPHPFPM([s EXCEPT !.poolFiles = RemoveFile(@, poolConfigFile(site))], dry, env)
  ELSE s

removeSymlink(s, domain, dry) ==
  IF domain \notin s.symlinks THEN s
  ELSE IF dry THEN s
  ELSE [s EXCEPT !.symlinks = @ \ {domain}]

removeFile(s, domain, dry) ==
  IF domain \notin DOMAIN s.caddyFiles THEN s
  ELSE IF dry THEN s
  ELSE [s EXCEPT !.caddyFiles = RemoveFile(@, domain)]

removeDirectory(s, dirPath, dry) ==
  IF dirPath \notin s.docRoots THEN s
  ELSE IF dry THEN s
  ELSE [s EXCEPT !.docRoots = @ \ {dirPath}]

deleteDatabase(s, site, dry, env) ==
  IF dry THEN s ELSE Exec(s, "mysql delete", env.failAt, "failed to execute database query")

(***************************************************************************)
(* SQLiteSiteManager: the operations.                                      *)
(***************************************************************************)
EnableSite(s, domain, dry) ==
  IF ~SiteExists(s, domain) THEN Fail(s, "site not found")
  ELSE LET site == GetSite(s, domain)
       IN IF site.IsEnabled /\ ~dry THEN s
          ELSE IF dry THEN s
          ELSE IF domain \notin DOMAIN s.caddyFiles THEN Fail(s, "site configuration not found")
          ELSE IF domain \in s.symlinks THEN Fail(s, "failed to create symlink")
          ELSE DBUpdateSite([s EXCEPT !.symlinks = @ \cup {domain}],
                            [site EXCEPT !.IsEnabled = TRUE])

\* DisableSite without the check that the record is enabled
DisableSiteUnguarded(s, domain, dry) ==
  IF ~SiteExists(s, domain) THEN Fail(s, "site not found")
  ELSE LET site == GetSite(s, domain)
       IN IF dry THEN s
          ELSE DBUpdateSite([s EXCEPT !.symlinks = @ \ {domain}],
                            [site EXCEPT !.IsEnabled = FALSE])

DisableSite(s, domain, dry) ==
  IF ~SiteExists(s, domain) THEN Fail(s, "site not found")
  ELSE LET site == GetSite(s, domain)
       IN IF ~site.IsEnabled /\ ~dry THEN Fail(s, "site is not enabled")
          ELSE IF dry THEN s
          ELSE DBUpdateSite([s EXCEPT !.symlinks = @ \ {domain}],
                            [site EXCEPT !.IsEnabled = FALSE])

\* CreateSite without the check that the domain has no record yet
CreateSiteUnchecked(s, opts, dry, env) ==
  IF opts.Domain = <<>> THEN Fail(s, "domain is required")
  ELSE
    LET dbName == IF opts.WordPress THEN generateDBName(opts.Domain) ELSE <<>>
        site == [ID |-> 0,
                 Domain |-> opts.Domain,
                 DocumentRoot |-> <<"/var/www/sites/">> \o opts.Domain,
                 PHPVersion |-> IF opts.PHPVersion = <<>> THEN ConfigPHPVersion ELSE opts.PHPVersion,
                 IsWordPress |-> opts.WordPress,
                 IsEnabled |-> FALSE,
                 MaxUpload |-> IF opts.MaxUpload = <<>> THEN DefaultMaxUpload ELSE opts.MaxUpload,
                 DBName |-> dbName,
                 DBUser |-> dbName,
                 PoolName |-> generatePoolName(opts.Domain)]
        s1 == checkPhysicalConflicts(s, site, dry, env)
        s2 == Then(s1, LAMBDA x : createPHPFPMPool(x, site, dry, env))
        s3 == Then(s2, LAMBDA x : restartPHPFPM(x, dry, env))
        s4 == Then(s3, LAMBDA x : createSiteDirectory(x, site, dry))
        s5 == Then(s4, LAMBDA x : IF site.IsWordPress THEN createWordPressSite(x, site, dry, env)
                   ELSE createBasicPHPSite(x, site, dry))
        s6 == Then(s5, LAMBDA x : setPermissions(x, site, dry, env))
        s7 == Then(s6, LAMBDA x : generateCaddyConfig(x, site, dry))
        s8 == Then(s7, LAMBDA x : DBCreateSite(x, site))
        s9 == Then(s8, LAMBDA x : EnableSite(x, opts.Domain, dry))
    IN Then(s9, LAMBDA x : validateAndReloadCaddy(x, dry, env))

CreateSite(s, opts, dry, env) ==
  IF opts.Domain = <<>> THEN Fail(s, "domain is required")
  ELSE IF SiteExists(s, opts.Domain) THEN Fail(s, "site already exists")
  ELSE
    LET dbName == IF opts.WordPress THEN generateDBName(opts.Domain) ELSE <<>>
        site == [ID |-> 0,
                 Domain |-> opts.Domain,
                 DocumentRoot |-> <<"/var/www/sites/">> \o opts.Domain,
                 PHPVersion |-> IF opts.PHPVersion = <<>> THEN ConfigPHPVersion ELSE opts.PHPVersion,
                 IsWordPress |-> opts.WordPress,
                 IsEnabled |-> FALSE,
                 MaxUpload |-> IF opts.MaxUpload = <<>> THEN DefaultMaxUpload ELSE opts.MaxUpload,
                 DBName |-> dbName,
                 DBUser |-> dbName,
                 PoolName |-> generatePoolName(opts.Domain)]
        s1 == checkPhysicalConflicts(s, site, dry, env)
        s2 == Then(s1, LAMBDA x : createPHPFPMPool(x, site, dry, env))
        s3 == Then(s2, LAMBDA x : restartPHPFPM(x, dry, env))
        s4 == Then(s3, LAMBDA x : createSiteDirectory(x, site, dry))
        s5 == Then(s4, LAMBDA x : IF site.IsWordPress THEN createWordPressSite(x, site, dry, env)
                   ELSE createBasicPHPSite(x, site, dry))
        s6 == Then(s5, LAMBDA x : setPermissions(x, site, dry, env))
        s7 == Then(s6, LAMBDA x : generateCaddyConfig(x, site, dry))
        s8 == Then(s7, LAMBDA x : DBCreateSite(x, site))
        s9 == Then(s8, LAMBDA x : EnableSite(x, opts.Domain, dry))
    IN Then(s9, LAMBDA x : validateAndReloadCaddy(x, dry, env))

\* hardDelete removing the document root before the store record is deleted
hardDeleteDirectoryFirst(s, site, opts, dry, env) ==
  IF ~opts.Force /\ ~dry /\ env.declineAt = "delete" THEN s
  ELSE
    LET s1 == IF site.IsWordPress THEN deleteDatabase(s, site, dry, env) ELSE s
        s2 == Then(s1, LAMBDA x : removePHPFPMPool(x, site, dry, env))
        s3 == Then(s2, LAMBDA x : removeSymlink(x, opts.Domain, dry))
        s4 == Then(s3, LAMBDA x : removeFile(x, opts.Domain, dry))
        s5 == Then(s4, LAMBDA x : removeDirectory(x, site.DocumentRoot, dry))
        s6 == Then(s5, LAMBDA x : DBDeleteSite(x, opts.Domain))
    IN Then(s6, LAMBDA x : reloadCaddy(x, dry, env))

hardDelete(s, site, opts, dry, env) ==
  IF ~opts.Force /\ ~dry /\ env.declineAt = "delete" THEN s
  ELSE
    LET s1 == IF site.IsWordPress THEN deleteDatabase(s, site, dry, env) ELSE s
        s2 == Then(s1, LAMBDA x : removePHPFPMPool(x, site, dry, env))
        s3 == Then(s2, LAMBDA x : removeSymlink(x, opts.Domain, dry))
        s4 == Then(s3, LAMBDA x : removeFile(x, opts.Domain, dry))
        s5 == Then(s4, LAMBDA x : DBDeleteSite(x, opts.Domain))
        s6 == Then(s5, LAMBDA x : reloadCaddy(x, dry, env))
    IN Then(s6, LAMBDA x : removeDirectory(x, site.DocumentRoot, dry))

\* softDelete leaving the symlink in place
softDeleteKeepingSymlink(s, site, opts, dry, env) ==
  LET s1 == DBUpdateSite(s, [site EXCEPT !.IsEnabled = FALSE])
  IN reloadCaddy(s1, dry, env)

softDelete(s, site, opts, dry, env) ==
  LET s1 == DBUpdateSite(s, [site EXCEPT !.IsEnabled = FALSE])
      s2 == removeSymlink(s1, opts.Domain, dry)
  IN reloadCaddy(s2, dry, env)

DeleteSite(s, opts, dry, env) ==
  IF opts.Domain = <<>> THEN Fail(s, "domain is required")
  ELSE IF ~SiteExists(s, opts.Domain) THEN Fail(s, "site not found")
  ELSE LET site == GetSite(s, opts.Domain)
           s0 == [s EXCEPT !.siteId = site.ID]
       IN IF opts.Hard THEN hardDelete(s0, site, opts, dry, env)
          ELSE softDelete(s0, site, opts, dry, env)

\* caddy hash-password, with htpasswd as the fallback when it fails
generatePasswordHash(s, env) ==
  LET s1 == Invoke(s, "caddy hash-password")
  IN IF env.failAt = "caddy hash-password" THEN Invoke(s1, "htpasswd")
     ELSE IF env.failAt = "htpasswd"
     THEN Fail(Invoke(s1, "htpasswd"), "failed to generate password hash")
     ELSE s1

\* AddBasicAuth that stores the password as it was given
AddBasicAuthPlain(s, domain, rawPath, username, password, dry, env) ==
  IF domain = <<>> \/ rawPath = <<>> \/ username = <<>> \/ password = <<>>
  THEN Fail(s, "domain, path, username, and password are all required")
  ELSE
    LET path == IF HasPrefix(rawPath, "/") THEN rawPath ELSE <<"/">> \o rawPath
    IN IF ~SiteExists(s, domain) THEN Fail(s, "site not found")
       ELSE
         LET site == GetSite(s, domain)
             s1 == generatePasswordHash([s EXCEPT !.siteId = site.ID], env)
             auth == [SiteID |-> site.ID, Path |-> path, Username |-> username,
                      Password |-> password]
             s2 == Then(s1, LAMBDA x : DBCreateBasicAuth(x, auth))
             s3 == Then(s2, LAMBDA x : regenerateCaddyConfig(x, site.ID, domain, dry, env))
         IN IF dry THEN s
            ELSE Then(s3, LAMBDA x : reloadCaddy(x, dry, env))

AddBasicAuth(s, domain, rawPath, username, password, dry, env) ==
  IF domain = <<>> \/ rawPath = <<>> \/ username = <<>> \/ password = <<>>
  THEN Fail(s, "domain, path, username, and password are all required")
  ELSE
    LET path == IF HasPrefix(rawPath, "/") THEN rawPath ELSE <<"/">> \o rawPath
    IN IF ~SiteExists(s, domain) THEN Fail(s, "site not found")
       ELSE
         LET site == GetSite(s, domain)
             s1 == generatePasswordHash([s EXCEPT !.siteId = site.ID], env)
             auth == [SiteID |-> site.ID, Path |-> path, Username |-> username,
                      Password |-> env.hash]
             s2 == Then(s1, LAMBDA x : DBCreateBasicAuth(x, auth))
             s3 == Then(s2, LAMBDA x : regenerateCaddyConfig(x, site.ID, domain, dry, env))
         IN IF dry THEN s
            ELSE Then(s3, LAMBDA x : reloadCaddy(x, dry, env))

RemoveBasicAuth(s, domain, rawPath, dry, env) ==
  LET path == IF HasPrefix(rawPath, "/") THEN rawPath ELSE <<"/">> \o rawPath
  IN IF ~SiteExists(s, domain) THEN Fail(s, "site not found")
     ELSE
       LET site == GetSite(s, domain)
           s1 == DBDeleteBasicAuthsForPath([s EXCEPT !.siteId = site.ID], site.ID, path)
           s2 == regenerateCaddyConfig(s1, site.ID, domain, dry, env)
       IN IF dry THEN s
          ELSE Then(s2, LAMBDA x : reloadCaddy(x, dry, env))

Digits == {"1", "2", "5", "6"}
Units == {"K", "M", "G", "T"}

ToUpper(str) ==
  [i \in 1..Len(str) |->
     CASE str[i] = "g" -> "G" [] str[i] = "m" -> "M" [] str[i] = "b" -> "B"
       [] str[i] = "x" -> "X" [] OTHER -> str[i]]

\* ^[0-9]+[KMGT]B?$ on the upper-cased size
validateSizeFormat(size) ==
  LET u == ToUpper(size)
  IN \E k \in 1..Len(u) :
       /\ \A i \in 1..k : u[i] \in Digits
       /\ k + 1 <= Len(u)
       /\ u[k + 1] \in Units
       /\ \/ Len(u) = k + 1
          \/ Len(u) = k + 2 /\ u[k + 2] = "B"

\* the tokens from the first line end on
RECURSIVE RestOfLine(_)
RestOfLine(text) ==
  IF text = <<>> THEN <<>>
  ELSE IF Head(text) = NL THEN text
  ELSE RestOfLine(Tail(text))

\* ReplaceAllString of `key\s*=\s*[^\n]+` by "key = newSize"
RECURSIVE ReplaceSetting(_, _, _)
ReplaceSetting(text, key, newSize) ==
  IF text = <<>> THEN <<>>
  ELSE IF Head(text) = key
  THEN <<key, " = ">> \o newSize \o ReplaceSetting(RestOfLine(Tail(text)), key, newSize)
  ELSE <<Head(text)>> \o ReplaceSetting(Tail(text), key, newSize)

updatePHPPoolUploadSize(s, site, newSize) ==
  IF poolConfigFile(site) \notin DOMAIN s.poolFiles THEN Fail(s, "PHP pool config file not found")
  ELSE LET content == s.poolFiles[poolConfigFile(site)]
           configStr == ReplaceSetting(ReplaceSetting(content, KwUpload, newSize), KwPost, newSize)
       IN [s EXCEPT !.poolFiles = WriteFile(@, poolConfigFile(site), configStr)]

\* ModifyMaxUpload that reloads Caddy even when the restart of PHP-FPM failed
ModifyMaxUploadContinuing(s, domain, newSize, dry, env) ==
  IF ~validateSizeFormat(newSize) THEN Fail(s, "invalid size format")
  ELSE IF ~SiteExists(s, domain) THEN Fail(s, "site not found")
  ELSE
    LET site == [GetSite(s, domain) EXCEPT !.MaxUpload = newSize]
        s1 == DBUpdateSite([s EXCEPT !.siteId = site.ID], site)
        s2 == updatePHPPoolUploadSize(s1, site, newSize)
        s3 == Then(s2, LAMBDA x : regenerateCaddyConfig(x, site.ID, domain, dry, env))
        s4 == Then(s3, LAMBDA x : restartPHPFPM(x, dry, env))
    IN IF dry THEN s
       ELSE Then(s3, LAMBDA x : [reloadCaddy([s4 EXCEPT !.err = ""], dry, env)
                                   EXCEPT !.err = s4.err])

ModifyMaxUpload(s, domain, newSize, dry, env) ==
  IF ~validateSizeFormat(newSize) THEN Fail(s, "invalid size format")
  ELSE IF ~SiteExists(s, domain) THEN Fail(s, "site not found")
  ELSE
    LET site == [GetSite(s, domain) EXCEPT !.MaxUpload = newSize]
        s1 == DBUpdateSite([s EXCEPT !.siteId = site.ID], site)
        s2 == updatePHPPoolUploadSize(s1, site, newSize)
        s3 == Then(s2, LAMBDA x : regenerateCaddyConfig(x, site.ID, domain, dry, env))
        s4 == Then(s3, LAMBDA x : restartPHPFPM(x, dry, env))
    IN IF dry THEN s
       ELSE Then(s4, LAMBDA x : reloadCaddy(x, dry, env))

(***************************************************************************)
(* The state machine of the manager: one action per command.               *)
(***************************************************************************)
DomainHyphen == <<"a", "-", "b">>
DomainDot == <<"a", ".", "b">>
SiteDomains == {DomainHyphen, DomainDot}
PHPVersions == {<<"8.3">>}
CreateSizes == {<<>>, <<"2", "G">>}
ModifySizes == {<<"2", "G">>, <<"x">>}
InputPaths == {<<"/", "a">>, <<"b">>, <<>>}
StoredPaths == {<<"/", "a">>, <<"/", "b">>}
Usernames == {<<"u">>, <<"v">>}
Passwords == {<<"pw">>}
Hashes == {<<"$2a$14$h1">>}
HandLine == "\n# added by hand\n"

\* A run draws its inputs from one scope: the domains, site kinds, paths and
\* user names the commands are given, and whether external commands may fail,
\* prompts may be declined and files may be edited by hand.
Scopes ==
  {[name |-> "two sites", domains |-> SiteDomains, wordpress |-> {FALSE},
    paths |-> {<<"/", "a">>}, users |-> {<<"u">>}, dry |-> {FALSE}, faults |-> FALSE,
    prompts |-> FALSE, hand |-> FALSE],
   [name |-> "auth rules", domains |-> {DomainDot}, wordpress |-> {FALSE},
    paths |-> InputPaths, users |-> Usernames, dry |-> {FALSE}, faults |-> FALSE,
    prompts |-> FALSE, hand |-> TRUE],
   [name |-> "faults", domains |-> {DomainDot, <<>>}, wordpress |-> BOOLEAN,
    paths |-> {<<"b">>}, users |-> {<<"u">>}, dry |-> BOOLEAN, faults |-> TRUE,
    prompts |-> TRUE, hand |-> FALSE]}

Faults(points) == IF scope.faults THEN points \cup {"none"} ELSE {"none"}
Prompts(points) == IF scope.prompts THEN points \cup {"none"} ELSE {"none"}

NoEnv ==
  [failAt |-> "none", declineAt |-> "none", dbExists |-> FALSE, userExists |-> FALSE,
   hash |-> <<>>, mapOrder |-> <<>>]

MainInit ==
  /\ sites = {}
  /\ basic_auths = {}
  /\ nextId = 1
  /\ caddyFiles = <<>>
  /\ symlinks = {}
  /\ poolFiles = <<>>
  /\ docRoots = {}
  /\ last = [op |-> "init", domain |-> <<>>, dry |-> FALSE, err |-> "", calls |-> <<>>,
             siteId |-> 0, onlySizeOps |-> TRUE]

PureIdle ==
  /\ poolRun = [pc |-> "idle"]
  /\ spliceRun = [pc |-> "idle"]
  /\ tripRun = [pc |-> "idle"]
  /\ migRun = [pc |-> "idle"]
  /\ raceRun = [pc |-> "idle"]
  /\ fnRun = [pc |-> "idle"]

Init == MainInit /\ scope \in Scopes /\ PureIdle

Commit(r, op, domain, dry) ==
  /\ sites' = r.sites
  /\ basic_auths' = r.basic_auths
  /\ nextId' = r.nextId
  /\ caddyFiles' = r.caddyFiles
  /\ symlinks' = r.symlinks
  /\ poolFiles' = r.poolFiles
  /\ docRoots' = r.docRoots
  /\ last' = [op |-> op, domain |-> domain, dry |-> dry, err |-> r.err, calls |-> r.calls,
              siteId |-> r.siteId,
              onlySizeOps |-> /\ last.onlySizeOps
                              /\ op \in {"CreateSite", "ModifyMaxUpload"}
                              /\ r.err = ""
                              /\ ~dry]
  /\ UNCHANGED <<scope, poolRun, spliceRun, tripRun, migRun, raceRun, fnRun>>

CreateFailPoints ==
  {"chown", "systemctl restart php-fpm", "chown -R", "caddy validate", "systemctl reload caddy"}
WordPressFailPoints ==
  {"mysql db-exists", "mysql drop-db", "mysql user-exists", "mysql drop-user",
   "stat wordpress-template", "cp wordpress-template", "mysql setup", "http salts"}

DoCreateSite ==
  \E d \in scope.domains, wp \in scope.wordpress, size \in CreateSizes, ver \in PHPVersions,
     dry \in scope.dry, failAt \in Faults(CreateFailPoints \cup WordPressFailPoints),
     declineAt \in Prompts({"dir", "config", "db", "user"}), dbPresent \in BOOLEAN :
    /\ nextId <= MaxSites
    \* inputs that cannot make a difference are fixed
    /\ (dry \/ d = <<>> \/ SiteExists(St, d)) => failAt = "none" /\ declineAt = "none" /\ ~dbPresent
    /\ ~wp => failAt \notin WordPressFailPoints /\ declineAt \notin {"db", "user"} /\ ~dbPresent
    /\ declineAt = "dir" => (<<"/var/www/sites/">> \o d) \in docRoots
    /\ declineAt = "config" => d \in DOMAIN caddyFiles
    /\ declineAt \in {"db", "user"} => dbPresent
    /\ failAt \in {"mysql drop-db", "mysql drop-user"} => dbPresent
    /\ dbPresent => scope.prompts
    /\ Commit(CreateSite(St,
                         [Domain |-> d, WordPress |-> wp, MaxUpload |-> size, PHPVersion |-> ver],
                         dry,
                         [NoEnv EXCEPT !.failAt = failAt, !.declineAt = declineAt,
                                       !.dbExists = dbPresent, !.userExists = dbPresent]),
              "CreateSite", d, dry)

DoDeleteSite ==
  \E d \in scope.domains, hard \in BOOLEAN, force \in BOOLEAN, dry \in scope.dry,
     failAt \in Faults({"mysql delete", "systemctl restart php-fpm", "systemctl reload caddy"}),
     declineAt \in {"none", "delete"} :
    /\ (dry \/ ~SiteExists(St, d)) => failAt = "none" /\ declineAt = "none"
    /\ (force \/ ~hard) => declineAt = "none"
    /\ ~hard => ~force /\ failAt \in {"none", "systemctl reload caddy"}
    /\ Commit(DeleteSite(St, [Domain |-> d, Hard |-> hard, Force |-> force], dry,
                         [NoEnv EXCEPT !.failAt = failAt, !.declineAt = declineAt]),
              IF hard THEN "DeleteSite --hard" ELSE "DeleteSite", d, dry)

DoEnableSite ==
  \E d \in scope.domains \ {<<>>}, dry \in scope.dry :
    Commit(EnableSite(St, d, dry), "EnableSite", d, dry)

DoDisableSite ==
  \E d \in scope.domains \ {<<>>}, dry \in scope.dry :
    Commit(DisableSite(St, d, dry), "DisableSite", d, dry)

DoAddBasicAuth ==
  \E d \in scope.domains \ {<<>>}, path \in scope.paths, username \in scope.users,
     password \in Passwords, dry \in scope.dry, hash \in Hashes, mapOrder \in Perms(StoredPaths),
     failAt \in Faults({"caddy hash-password", "htpasswd", "systemctl reload caddy"}) :
    /\ Cardinality(basic_auths) < MaxAuthRows
    /\ (dry \/ ~SiteExists(St, d)) => failAt = "none"
    /\ Commit(AddBasicAuth(St, d, path, username, password, dry,
                           [NoEnv EXCEPT !.failAt = failAt, !.hash = hash,
                                         !.mapOrder = mapOrder]),
              "AddBasicAuth", d, dry)

DoRemoveBasicAuth ==
  \E d \in scope.domains \ {<<>>}, path \in scope.paths, dry \in scope.dry,
     mapOrder \in Perms(StoredPaths), failAt \in Faults({"systemctl reload caddy"}) :
    /\ (dry \/ ~SiteExists(St, d)) => failAt = "none"
    /\ Commit(RemoveBasicAuth(St, d, path, dry,
                              [NoEnv EXCEPT !.failAt = failAt, !.mapOrder = mapOrder]),
              "RemoveBasicAuth", d, dry)

DoModifyMaxUpload ==
  \E d \in scope.domains \ {<<>>}, newSize \in ModifySizes, dry \in scope.dry,
     mapOrder \in Perms(StoredPaths),
     failAt \in Faults({"systemctl restart php-fpm", "systemctl reload caddy"}) :
    /\ (dry \/ ~SiteExists(St, d)) => failAt = "none"
    /\ Commit(ModifyMaxUpload(St, d, newSize, dry,
                              [NoEnv EXCEPT !.failAt = failAt, !.mapOrder = mapOrder]),
              "ModifyMaxUpload", d, dry)

\* the operator edits a site file by hand: one line is added at its end
HandEdit ==
  \E d \in scope.domains :
    /\ scope.hand
    /\ d \in DOMAIN caddyFiles
    /\ \A i \in 1..Len(caddyFiles[d]) : caddyFiles[d][i] # HandLine
    /\ caddyFiles' = WriteFile(caddyFiles, d, Append(caddyFiles[d], HandLine))
    /\ last' = [op |-> "HandEdit", domain |-> d, dry |-> FALSE, err |-> "", calls |-> <<>>,
                siteId |-> 0, onlySizeOps |-> FALSE]
    /\ UNCHANGED <<sites, basic_auths, nextId, symlinks, poolFiles, docRoots, scope, poolRun,
                 spliceRun, tripRun, migRun, raceRun, fnRun>>

Next ==
  \/ DoCreateSite
  \/ DoDeleteSite
  \/ DoEnableSite
  \/ DoDisableSite
  \/ DoAddBasicAuth
  \/ DoRemoveBasicAuth
  \/ DoModifyMaxUpload
  \/ HandEdit

Spec == Init /\ [][Next]_vars

(***************************************************************************)
(* generatePoolName on its own: two domains are drawn and named.           *)
(***************************************************************************)
IdleScope == CHOOSE sc \in Scopes : sc.name = "two sites"

InitPool ==
  /\ MainInit
  /\ scope = IdleScope
  /\ spliceRun = [pc |-> "idle"]
  /\ tripRun = [pc |-> "idle"]
  /\ migRun = [pc |-> "idle"]
  /\ raceRun = [pc |-> "idle"]
  /\ fnRun = [pc |-> "idle"]
  /\ poolRun \in {[pc |-> "start", d1 |-> x, d2 |-> y, p1 |-> <<>>, p2 |-> <<>>] :
                    x \in ValidDomains, y \in ValidDomains}

NamePools ==
  /\ poolRun.pc = "start"
  /\ poolRun' = [poolRun EXCEPT !.pc = "done",
                                !.p1 = generatePoolName(poolRun.d1),
                                !.p2 = generatePoolName(poolRun.d2)]
  /\ UNCHANGED <<mainVars, scope, spliceRun, tripRun, migRun, raceRun, fnRun>>

NextPool == NamePools

SpecPool == InitPool /\ [][NextPool]_vars

(***************************************************************************)
(* addBasicAuthToConfig on its own: a rendered template and a rule list    *)
(* are drawn; the list is spliced in, then either spliced into the result  *)
(* once more or rendered a second time from the same inputs.               *)
(***************************************************************************)
MaxSpliceRows == 3
SplicePaths == {<<"/", "a">>, <<"/", "b">>, <<"/", "a", "*">>}
SpliceHashes == {<<"H1">>, <<"H2">>}

SpliceSites ==
  {[ID |-> 1, Domain |-> DomainDot, DocumentRoot |-> <<"/var/www/sites/">> \o DomainDot,
    PHPVersion |-> <<"8.3">>, IsWordPress |-> wp, IsEnabled |-> TRUE,
    MaxUpload |-> DefaultMaxUpload, DBName |-> <<>>, DBUser |-> <<>>,
    PoolName |-> generatePoolName(DomainDot)] : wp \in BOOLEAN}

SpliceRows ==
  {[SiteID |-> 1, Path |-> p, Username |-> u, Password |-> h] :
     p \in SplicePaths, u \in Usernames, h \in SpliceHashes}

\* rule sets the store can hold: (path, username) is unique
SpliceRuleSets ==
  {A \in SUBSET SpliceRows :
     /\ Cardinality(A) <= MaxSpliceRows
     /\ \A x, y \in A : (x.Path = y.Path /\ x.Username = y.Username) => x = y}

InitSplice ==
  /\ MainInit
  /\ scope = IdleScope
  /\ poolRun = [pc |-> "idle"]
  /\ tripRun = [pc |-> "idle"]
  /\ migRun = [pc |-> "idle"]
  /\ raceRun = [pc |-> "idle"]
  /\ fnRun = [pc |-> "idle"]
  /\ spliceRun \in {[pc |-> "start", site |-> st, rules |-> A, out1 |-> <<>>, out2 |-> <<>>] :
                      st \in SpliceSites, A \in SpliceRuleSets}

SpliceOnce ==
  /\ spliceRun.pc = "start"
  /\ \E order \in MapOrders(SortAuths(spliceRun.rules)) :
       spliceRun' = [spliceRun EXCEPT
                       !.pc = "spliced",
                       !.out1 = addBasicAuthToConfig(ExecuteSiteTemplate(spliceRun.site),
                                                     SortAuths(spliceRun.rules), order)]
  /\ UNCHANGED <<mainVars, scope, poolRun, tripRun, migRun, raceRun, fnRun>>

SpliceAgain ==
  /\ spliceRun.pc = "spliced"
  /\ \E order \in MapOrders(SortAuths(spliceRun.rules)) :
       spliceRun' = [spliceRun EXCEPT
                       !.pc = "spliced twice",
                       !.out2 = addBasicAuthToConfig(spliceRun.out1,
                                                     SortAuths(spliceRun.rules), order)]
  /\ UNCHANGED <<mainVars, scope, poolRun, tripRun, migRun, raceRun, fnRun>>

RenderAgain ==
  /\ spliceRun.pc = "spliced"
  /\ \E order \in MapOrders(SortAuths(spliceRun.rules)) :
       spliceRun' = [spliceRun EXCEPT
                       !.pc = "rendered twice",
                       !.out2 = addBasicAuthToConfig(ExecuteSiteTemplate(spliceRun.site),
                                                     SortAuths(spliceRun.rules), order)]
  /\ UNCHANGED <<mainVars, scope, poolRun, tripRun, migRun, raceRun, fnRun>>

NextSplice == SpliceOnce \/ SpliceAgain \/ RenderAgain

SpecSplice == InitSplice /\ [][NextSplice]_vars

(***************************************************************************)
(* Reading a site text back: the access-control stanzas it contains.       *)
(***************************************************************************)
RouteOpens(text) == {i \in 1..Len(text) : text[i] = KwRoute}

FirstAfter(text, i, tok) ==
  IF \E j \in (i + 1)..Len(text) : text[j] = tok
  THEN CHOOSE j \in (i + 1)..Len(text) : text[j] = tok /\ \A k \in (i + 1)..(j - 1) : text[k] # tok
  ELSE Len(text) + 1

PatternAt(text, i) == SubSeq(text, i + 2, FirstAfter(text, i, StanzaHeader) - 1)

\* the credential lines of the stanza opened at i, as <<username, hash>> pairs in order
RECURSIVE SplitAt(_, _)
SplitAt(seq, sep) ==
  IF seq = <<>> THEN <<>>
  ELSE LET cut == FirstAfter(seq, 0, sep)
       IN <<SubSeq(seq, 1, cut - 1)>> \o SplitAt(SubSeq(seq, cut + 1, Len(seq)), sep)

LinesAt(text, i) ==
  LET body == SubSeq(text, FirstAfter(text, i, StanzaHeader) + 1,
                     FirstAfter(text, i, StanzaClose) - 1)
      lines == SplitAt(Tail(body), UserIndent)
  IN IF body = <<>> THEN <<>>
     ELSE [k \in 1..Len(lines) |->
             LET sp == FirstAfter(lines[k], 0, " ")
             IN <<SubSeq(lines[k], 1, sp - 1), SubSeq(lines[k], sp + 1, Len(lines[k]))>>]

PatternOf(path) == IF HasSuffix(path, "*") THEN path ELSE path \o <<"*">>

\* each stanza is closed before the next one opens
StanzasSequential(text) ==
  \A i \in RouteOpens(text) :
    /\ FirstAfter(text, i, StanzaHeader) < FirstAfter(text, i, StanzaClose)
    /\ FirstAfter(text, i, StanzaClose) <= Len(text)
    /\ \A j \in RouteOpens(text) : i < j => FirstAfter(text, i, StanzaClose) < j

\* the stanzas appear in lexicographic order of their path patterns
StanzasSorted(text) ==
  \A i, j \in RouteOpens(text) : i < j => ~StrLess(PatternAt(text, j), PatternAt(text, i))

SpliceRulePaths == {r.Path : r \in spliceRun.rules}
SplicePairs(path) == {<<r.Username, r.Password>> : r \in {x \in spliceRun.rules : x.Path = path}}

(***************************************************************************)
(* Properties                                                              *)
(***************************************************************************)

\* C1: splicing the stanzas for a rule set into a text that already had them
\* spliced in gives the same text as splicing once (no stanza is duplicated).
C1_SpliceIdempotent ==
  spliceRun.pc = "spliced twice" => spliceRun.out2 = spliceRun.out1

\* C3: for a non-empty rule set the spliced text has exactly one stanza per
\* distinct path, that stanza lists every (username, hash) pair stored for the
\* path, once each, and every stanza is closed before the next one opens.
C3_OneStanzaPerPath ==
  (spliceRun.pc = "spliced" /\ spliceRun.rules # {}) =>
    LET text == spliceRun.out1
    IN /\ Cardinality(RouteOpens(text)) = Cardinality(SpliceRulePaths)
       /\ StanzasSequential(text)
       /\ \A p \in SpliceRulePaths :
            \E i \in RouteOpens(text) :
              /\ PatternAt(text, i) = PatternOf(p)
              /\ Range(LinesAt(text, i)) = SplicePairs(p)
              /\ Len(LinesAt(text, i)) = Cardinality(SplicePairs(p))

\* C3 witness: a spliced text for two users on one path and a second path
C3_Witness ==
  /\ spliceRun.pc = "spliced"
  /\ Cardinality(SpliceRulePaths) = 2
  /\ \E p \in SpliceRulePaths : Cardinality(SplicePairs(p)) = 2

\* C4: two renderings of the same site and rule set are identical, and the
\* stanzas are emitted in lexicographic order of their paths.
C4_RenderDeterministic ==
  spliceRun.pc = "rendered twice" =>
    /\ spliceRun.out2 = spliceRun.out1
    /\ StanzasSorted(spliceRun.out1)

\* C5: two distinct valid domains never get the same pool identifier.
C5_PoolNameInjective ==
  (poolRun.pc = "done" /\ poolRun.d1 # poolRun.d2) => poolRun.p1 # poolRun.p2

(***************************************************************************)
(* Reading the stored state back                                           *)
(***************************************************************************)
SiteRow(domain) == CHOOSE x \in sites : x.Domain = domain

\* the site text a fresh regeneration from the store writes, for one map order
DirectText(domain, mapOrder) ==
  regenerateCaddyConfig([St EXCEPT !.caddyFiles = <<>>], SiteRow(domain).ID, domain, FALSE,
                        [NoEnv EXCEPT !.mapOrder = mapOrder]).caddyFiles[domain]

Succeeded(ops) == last.op \in ops /\ last.err = "" /\ ~last.dry

\* the value written on the line of a setting
ValueAfter(text, key) ==
  LET i == Index(text, key)
  IN IF i = NotFound THEN <<"?">> ELSE SubSeq(text, i + 2, FirstAfter(text, i, NL) - 1)

SizeAgrees(x) ==
  /\ poolConfigFile(x) \in DOMAIN poolFiles
  /\ x.Domain \in DOMAIN caddyFiles
  /\ ValueAfter(poolFiles[poolConfigFile(x)], KwUpload) = x.MaxUpload
  /\ ValueAfter(poolFiles[poolConfigFile(x)], KwPost) = x.MaxUpload
  /\ ValueAfter(caddyFiles[x.Domain], KwMaxSize) = x.MaxUpload

\* a text without its access-control stanzas and the indent the splice puts after them
RECURSIVE StripStanzas(_)
StripStanzas(text) ==
  IF text = <<>> THEN <<>>
  ELSE IF Len(text) >= 2 /\ text[1] = SpliceEnd /\ text[2] = KwRoute
  THEN LET close == FirstAfter(text, 0, StanzaClose)
           rest == SubSeq(text, close + 1, Len(text))
       IN IF Len(rest) >= 2 /\ rest[1] = SpliceEnd /\ rest[2] # KwRoute
          THEN StripStanzas(Tail(rest))
          ELSE StripStanzas(rest)
  ELSE <<Head(text)>> \o StripStanzas(Tail(text))

\* every element of a occurs in b, in the same relative order
RECURSIVE IsSubseq(_, _)
IsSubseq(a, b) ==
  IF a = <<>> THEN TRUE
  ELSE IF b = <<>> THEN FALSE
  ELSE IF Head(a) = Head(b) THEN IsSubseq(Tail(a), Tail(b))
  ELSE IsSubseq(a, Tail(b))

\* C2: after a successful AddBasicAuth or RemoveBasicAuth took a site from
\* rule set A1 to A2, its text is the text that going directly to A2 gives:
\* whatever a fresh regeneration from the stored rules writes.
C2_NoResidue ==
  Succeeded({"AddBasicAuth", "RemoveBasicAuth"}) =>
    \A mapOrder \in Perms(StoredPaths) :
      caddyFiles[last.domain] = DirectText(last.domain, mapOrder)

\* C6: a command run in dry-run mode leaves the stored records and every
\* file as they were and makes no external command call.
C6_DryRunChangesNothing ==
  [][last'.dry =>
       /\ sites' = sites
       /\ basic_auths' = basic_auths
       /\ caddyFiles' = caddyFiles
       /\ symlinks' = symlinks
       /\ poolFiles' = poolFiles
       /\ docRoots' = docRoots
       /\ last'.calls = <<>>]_vars

\* C7: after a successful hard delete of a site no access rule of that site
\* remains in the store.
C7_CascadeOnHardDelete ==
  (/\ Succeeded({"DeleteSite --hard"})
   /\ ~\E x \in sites : x.ID = last.siteId)
    => ~\E a \in basic_auths : a.SiteID = last.siteId

\* C8: after a successful non-dry-run CreateSite, AddBasicAuth,
\* RemoveBasicAuth or ModifyMaxUpload the site file on disk is exactly the
\* text rendered from the stored site record and its stored rules.
C8_FileIsRenderedStore ==
  Succeeded({"CreateSite", "AddBasicAuth", "RemoveBasicAuth", "ModifyMaxUpload"}) =>
    /\ last.domain \in DOMAIN caddyFiles
    /\ \A mapOrder \in Perms(StoredPaths) :
         DirectText(last.domain, mapOrder) = caddyFiles[last.domain]

\* C9: AddBasicAuth and RemoveBasicAuth keep every line of the site file that
\* is not part of an access-control stanza, hand-made edits included, in the
\* same relative order.
C9_OtherLinesKept ==
  [][(/\ last'.op \in {"AddBasicAuth", "RemoveBasicAuth"}
      /\ last'.err = ""
      /\ ~last'.dry
      /\ last'.domain \in DOMAIN caddyFiles)
       => IsSubseq(StripStanzas(caddyFiles[last'.domain]), caddyFiles'[last'.domain])]_vars

\* C10: in every state reached by successful non-dry-run CreateSite and
\* ModifyMaxUpload calls only, each site's size limit is the same in both
\* values of its pool file, in max_size of its site file and in its record.
C10_SizeLimitAgrees ==
  last.onlySizeOps => \A x \in sites : SizeAgrees(x)

\* a text with the value on every line of a setting blanked out
RECURSIVE MaskValue(_, _)
MaskValue(text, key) ==
  IF text = <<>> THEN <<>>
  ELSE IF Head(text) = key /\ Len(text) >= 2
  THEN <<key, text[2], "?">> \o MaskValue(RestOfLine(Tail(Tail(text))), key)
  ELSE <<Head(text)>> \o MaskValue(Tail(text), key)

\* C11: a successful ModifyMaxUpload changes only the size values: apart from
\* the two size values of the pool file and max_size of the site file, both
\* files are the same before and after (header block and stanzas included).
C11_OnlySizeValuesChange ==
  [][(/\ last'.op = "ModifyMaxUpload"
      /\ last'.err = ""
      /\ ~last'.dry
      /\ last'.domain \in DOMAIN caddyFiles
      /\ SiteExists(St, last'.domain))
       => LET site == GetSite(St, last'.domain)
              pool == poolConfigFile(site)
          IN /\ MaskValue(MaskValue(poolFiles'[pool], KwUpload), KwPost)
                  = MaskValue(MaskValue(poolFiles[pool], KwUpload), KwPost)
             /\ MaskValue(caddyFiles'[last'.domain], KwMaxSize)
                  = MaskValue(caddyFiles[last'.domain], KwMaxSize)]_vars

(***************************************************************************)
(* Migration (cmd migrate): reading site files back into site records.     *)
(* A file is a text as above; a file written by hand is made of the same   *)
(* one-character tokens plus one token for each word the parser looks for. *)
(***************************************************************************)
Open == "{"
KwBasicAuth == "basic_auth"
KwMaxBodySize == "max_body_size"
KwHandle == "handle"
Hash == "#"
Blank == {" ", "\t", NL}

\* the chunks of the templates that begin with white space
SpaceLed ==
  Blank \cup {" {\n\t\t", "\n\tencode gzip\n\n\t# Set request body limit to match PHP settings\n\t",
              " {\n\troot * ", " {\n\tredir https://", " unix//run/php/php",
              " {path} {path}.php\n", " {path} {path}/ /index.php?{query}\n"}

\* the chunks that end in "root * " and in "php"
RootDirectives == {" {\n\troot * ", "root * "}
PhpSockets == {" unix//run/php/php", "php"}
VersionTokens == {"8.3", "8.2", "8.1", "8.0", "7.4"}

\* the chunks in which strings.ToLower finds a WordPress pattern
WordPressMarks ==
  {"WordPress", "wp-admin", "wp-content",
   "\n\t# WordPress pretty permalinks\n\t",
   "\n\t# Deny access to sensitive WordPress files\n\t@forbidden {\n\t\tpath *.sql\n\t\tpath /wp-config.php\n\t\tpath /wp-content/debug.log\n\t\tpath /.htaccess\n\t\tpath /wp-content/uploads/*.php\n\t}\n\trespond @forbidden 403\n"}

RECURSIVE TrimLeft(_)
TrimLeft(t) == IF t # <<>> /\ Head(t) \in Blank THEN TrimLeft(Tail(t)) ELSE t

RECURSIVE TrimRight(_)
TrimRight(t) ==
  IF t # <<>> /\ t[Len(t)] \in Blank THEN TrimRight(SubSeq(t, 1, Len(t) - 1)) ELSE t

TrimSpace(t) == TrimRight(TrimLeft(t))

\* strings.Split(content, "\n")
RECURSIVE SplitLines(_)
SplitLines(text) ==
  IF Index(text, NL) = NotFound THEN <<text>>
  ELSE <<SubSeq(text, 1, Index(text, NL) - 1)>>
       \o SplitLines(SubSeq(text, Index(text, NL) + 1, Len(text)))

\* the match of [^\s\n]+ at the start of t
RECURSIVE TakeWord(_)
TakeWord(t) ==
  IF t = <<>> \/ Head(t) \in SpaceLed THEN <<>> ELSE <<Head(t)>> \o TakeWord(Tail(t))

\* the capture of `kw\s+([^\s\n]+)`: the word after the first kw that is followed
\* by white space and a word
RECURSIVE ValueAfterSpace(_, _)
ValueAfterSpace(text, kw) ==
  IF text = <<>> THEN <<>>
  ELSE IF /\ Head(text) = kw
          /\ Len(text) >= 2 /\ text[2] \in Blank
          /\ TakeWord(TrimLeft(Tail(text))) # <<>>
       THEN TakeWord(TrimLeft(Tail(text)))
       ELSE ValueAfterSpace(Tail(text), kw)

\* the domain a line opens a block for, or empty
DomainOfLine(line) ==
  LET t == TrimSpace(line)
  IN IF t = <<>> \/ Head(t) = Hash \/ (Len(t) >= 2 /\ t[1] = "/" /\ t[2] = "/") THEN <<>>
     ELSE IF Index(t, Open) = NotFound THEN <<>>
     ELSE LET domain == TrimSpace(SubSeq(t, 1, Index(t, Open) - 1))
          IN IF isValidDomain(domain) THEN domain ELSE <<>>

RECURSIVE FirstDomain(_)
FirstDomain(lines) ==
  IF lines = <<>> THEN <<>>
  ELSE IF DomainOfLine(Head(lines)) # <<>> THEN DomainOfLine(Head(lines))
  ELSE FirstDomain(Tail(lines))

extractDomain(fileName, content) ==
  IF isValidDomain(fileName) THEN fileName ELSE FirstDomain(SplitLines(content))

\* root\s+\*\s+([^\s\n]+): the word after the first "root * "
RECURSIVE extractDocumentRoot(_)
extractDocumentRoot(content) ==
  IF content = <<>> THEN <<>>
  ELSE IF Head(content) \in RootDirectives /\ TakeWord(TrimLeft(Tail(content))) # <<>>
       THEN TakeWord(TrimLeft(Tail(content)))
       ELSE extractDocumentRoot(Tail(content))

\* php(\d+\.\d+), else the first of the known versions the content contains
extractPHPVersion(content) ==
  IF \E i \in 1..(Len(content) - 1) : content[i] \in PhpSockets /\ content[i + 1] \in VersionTokens
  THEN LET i == CHOOSE k \in 1..(Len(content) - 1) :
                  /\ content[k] \in PhpSockets /\ content[k + 1] \in VersionTokens
                  /\ \A j \in 1..(k - 1) :
                       ~(content[j] \in PhpSockets /\ content[j + 1] \in VersionTokens)
       IN <<content[i + 1]>>
  ELSE IF "8.3" \in Range(content) THEN <<"8.3">>
  ELSE IF "8.2" \in Range(content) THEN <<"8.2">>
  ELSE IF "8.1" \in Range(content) THEN <<"8.1">>
  ELSE IF "8.0" \in Range(content) THEN <<"8.0">>
  ELSE IF "7.4" \in Range(content) THEN <<"7.4">>
  ELSE <<>>

\* max_body_size\s+([^\s\n]+)
extractMaxUpload(content) == ValueAfterSpace(content, KwMaxBodySize)

\* wpConfigs: the document roots that hold a wp-config.php, with its DB_NAME and DB_USER
detectWordPress(documentRoot, content, wpConfigs) ==
  \/ documentRoot \in DOMAIN wpConfigs
  \/ \E i \in 1..Len(content) : content[i] \in WordPressMarks

extractWordPressDBInfo(documentRoot, wpConfigs) ==
  IF documentRoot \in DOMAIN wpConfigs THEN wpConfigs[documentRoot]
  ELSE [DBName |-> <<>>, DBUser |-> <<>>]

parseCaddyConfig(fileName, content, isEnabled, wpConfigs) ==
  LET domain == extractDomain(fileName, content)
      root == extractDocumentRoot(content)
      documentRoot == IF root = <<>> THEN <<"/var/www/">> \o domain ELSE root
      version == extractPHPVersion(content)
      isWordPress == detectWordPress(documentRoot, content, wpConfigs)
      maxUpload == extractMaxUpload(content)
      db == IF isWordPress THEN extractWordPressDBInfo(documentRoot, wpConfigs)
            ELSE [DBName |-> <<>>, DBUser |-> <<>>]
  IN IF domain = <<>> THEN [err |-> "could not extract domain from config"]
     ELSE [err |-> "",
           site |-> [ID |-> 0,
                     Domain |-> domain,
                     DocumentRoot |-> documentRoot,
                     PHPVersion |-> IF version = <<>> THEN <<"8.3">> ELSE version,
                     IsWordPress |-> isWordPress,
                     IsEnabled |-> isEnabled,
                     MaxUpload |-> IF maxUpload = <<>> THEN DefaultMaxUpload ELSE maxUpload,
                     DBName |-> db.DBName,
                     DBUser |-> db.DBUser,
                     PoolName |-> generatePoolName(domain)]]

(***************************************************************************)
(* Rendering a stored site, reading the file back and rendering again.     *)
(***************************************************************************)
TripDomains == {DomainHyphen, DomainDot, <<"b", "a">>}
TripSizes == {DefaultMaxUpload, <<"2", "G">>, <<"1", "G">>}
TripVersions == {<<"8.3">>, <<"8.1">>}

\* the records CreateSite stores, enabled or not
TripSites ==
  {[ID |-> 1, Domain |-> d, DocumentRoot |-> <<"/var/www/sites/">> \o d,
    PHPVersion |-> v, IsWordPress |-> wp, IsEnabled |-> en, MaxUpload |-> m,
    DBName |-> IF wp THEN generateDBName(d) ELSE <<>>,
    DBUser |-> IF wp THEN generateDBName(d) ELSE <<>>,
    PoolName |-> generatePoolName(d)] :
     d \in TripDomains, v \in TripVersions, wp \in BOOLEAN, en \in BOOLEAN, m \in TripSizes}

\* the wp-config.php files createWordPressSite leaves behind
WpConfigsOf(site) ==
  IF site.IsWordPress
  THEN [r \in {site.DocumentRoot} |-> [DBName |-> site.DBName, DBUser |-> site.DBUser]]
  ELSE <<>>

InitRoundTrip ==
  /\ MainInit
  /\ scope = IdleScope
  /\ poolRun = [pc |-> "idle"]
  /\ spliceRun = [pc |-> "idle"]
  /\ migRun = [pc |-> "idle"]
  /\ raceRun = [pc |-> "idle"]
  /\ fnRun = [pc |-> "idle"]
  /\ tripRun \in {[pc |-> "start", site |-> st, text1 |-> <<>>, parsed |-> [err |-> ""],
                   text2 |-> <<>>] : st \in TripSites}

\* the site file of a site without rules, parsed as migrate parses it (the file
\* is named by the domain), and the parsed record rendered the same way
RoundTrip ==
  /\ tripRun.pc = "start"
  /\ LET text1 == addBasicAuthToConfig(ExecuteSiteTemplate(tripRun.site), <<>>, <<>>)
         parsed == parseCaddyConfig(tripRun.site.Domain, text1, tripRun.site.IsEnabled,
                                    WpConfigsOf(tripRun.site))
     IN tripRun' = [tripRun EXCEPT
                      !.pc = "done",
                      !.text1 = text1,
                      !.parsed = parsed,
                      !.text2 = IF parsed.err = ""
                                THEN addBasicAuthToConfig(ExecuteSiteTemplate(parsed.site),
                                                          <<>>, <<>>)
                                ELSE <<>>]
  /\ UNCHANGED <<mainVars, scope, poolRun, spliceRun, migRun, raceRun, fnRun>>

NextRoundTrip == RoundTrip

SpecRoundTrip == InitRoundTrip /\ [][NextRoundTrip]_vars

\* C12: rendering a stored site without rules, parsing the file with the
\* migration parser and rendering the parsed record gives the same text.
C12_RoundTripStable ==
  tripRun.pc = "done" => (tripRun.parsed.err = "" /\ tripRun.text2 = tripRun.text1)

(***************************************************************************)
(* extractBasicAuthFromConfig and parseBasicAuthBlock.                     *)
(***************************************************************************)
CountTok(line, tok) == Cardinality({i \in 1..Len(line) : line[i] = tok})

\* the first position from `from` on that holds a token of S, or Len(text) + 1
NextIn(text, from, S) ==
  IF \E i \in from..Len(text) : text[i] \in S
  THEN CHOOSE i \in from..Len(text) : text[i] \in S /\ \A j \in from..(i - 1) : text[j] \notin S
  ELSE Len(text) + 1

\* the first position from `from` on that holds a token outside S, or Len(text) + 1
NextOutside(text, from, S) ==
  IF \E i \in from..Len(text) : text[i] \notin S
  THEN CHOOSE i \in from..Len(text) : text[i] \notin S /\ \A j \in from..(i - 1) : text[j] \in S
  ELSE Len(text) + 1

\* strings.Fields
RECURSIVE Fields(_)
Fields(line) ==
  LET from == NextOutside(line, 1, Blank)
      to == NextIn(line, from, Blank)
  IN IF from > Len(line) THEN <<>>
     ELSE <<SubSeq(line, from, to - 1)>> \o Fields(SubSeq(line, to, Len(line)))

RECURSIVE ParseAuthLines(_, _, _)
ParseAuthLines(lines, path, siteID) ==
  IF lines = <<>> THEN <<>>
  ELSE LET line == TrimSpace(Head(lines))
           parts == Fields(line)
       IN (IF line = <<>> \/ Head(line) = Hash \/ Len(parts) < 2 THEN <<>>
           ELSE <<[SiteID |-> siteID, Path |-> path, Username |-> parts[1],
                   Password |-> parts[2]]>>)
          \o ParseAuthLines(Tail(lines), path, siteID)

parseBasicAuthBlock(authBlock, path, siteID) ==
  ParseAuthLines(SplitLines(authBlock), path, siteID)

\* strings.TrimSuffix(path, "*")
TrimSuffixStar(path) ==
  IF HasSuffix(path, "*") THEN SubSeq(path, 1, Len(path) - 1) ELSE path

\* the position of the "{" that `basic_auth\s*\{` reaches from a basic_auth at k, or 0
AuthOpen(text, k) ==
  LET o == NextOutside(text, k + 1, Blank)
  IN IF o <= Len(text) /\ text[o] = Open THEN o ELSE 0

\* the match of route\s+([^\s{]+)[^{]*\{[^}]*basic_auth\s*\{([^}]+)\} that starts at
\* position i, if there is one
RouteMatchAt(text, i) ==
  IF ~(text[i] = KwRoute /\ i + 1 <= Len(text) /\ text[i + 1] \in Blank)
  THEN [ok |-> FALSE]
  ELSE
    LET p0 == NextOutside(text, i + 1, Blank)
        p1 == NextIn(text, p0, Blank \cup {Open})
        b1 == NextIn(text, p1, {Open})
        limit == NextIn(text, b1 + 1, {Brace})
        cands == {k \in (b1 + 1)..(limit - 1) :
                    /\ text[k] = KwBasicAuth
                    /\ AuthOpen(text, k) # 0
                    /\ NextIn(text, AuthOpen(text, k) + 1, {Brace}) <= Len(text)
                    /\ NextIn(text, AuthOpen(text, k) + 1, {Brace}) > AuthOpen(text, k) + 1}
    IN IF p1 = p0 \/ b1 > Len(text) \/ cands = {} THEN [ok |-> FALSE]
       ELSE LET k == CHOOSE c \in cands : \A d \in cands : d <= c
                o == AuthOpen(text, k)
                close == NextIn(text, o + 1, {Brace})
            IN [ok |-> TRUE, path |-> SubSeq(text, p0, p1 - 1),
                block |-> SubSeq(text, o + 1, close - 1), end |-> close]

\* FindAllStringSubmatch: the leftmost matches, none overlapping another
RECURSIVE RouteMatches(_, _)
RouteMatches(text, from) ==
  LET starts == {i \in from..Len(text) : RouteMatchAt(text, i).ok}
  IN IF starts = {} THEN <<>>
     ELSE LET i == CHOOSE c \in starts : \A d \in starts : c <= d
          IN <<RouteMatchAt(text, i)>> \o RouteMatches(text, RouteMatchAt(text, i).end + 1)

RECURSIVE RouteAuths(_, _)
RouteAuths(matches, siteID) ==
  IF matches = <<>> THEN <<>>
  ELSE parseBasicAuthBlock(Head(matches).block, TrimSuffixStar(TrimSpace(Head(matches).path)),
                           siteID)
       \o RouteAuths(Tail(matches), siteID)

\* the lines after line i up to the one that closes the block
RECURSIVE CollectBlock(_, _, _)
CollectBlock(lines, j, braceCount) ==
  IF j <= Len(lines) /\ braceCount > 0
  THEN LET rest == CollectBlock(lines, j + 1, braceCount + CountTok(lines[j], Open)
                                                  - CountTok(lines[j], Brace))
       IN [rest EXCEPT !.authContent = lines[j] \o <<NL>> \o @]
  ELSE [authContent |-> <<>>, braceCount |-> braceCount]

StartsRoute(trimmedLine) ==
  Len(trimmedLine) >= 2 /\ trimmedLine[1] = KwRoute /\ trimmedLine[2] = " "

OpensAuth(trimmedLine) ==
  \E k \in 1..(Len(trimmedLine) - 2) :
    trimmedLine[k] = KwBasicAuth /\ trimmedLine[k + 1] = " " /\ trimmedLine[k + 2] = Open

\* the line scan for stanzas that are not inside a route block
RECURSIVE DirectAuths(_, _, _, _, _)
DirectAuths(lines, i, inRoute, routeBraceCount, siteID) ==
  IF i > Len(lines) THEN <<>>
  ELSE
    LET trimmedLine == TrimSpace(lines[i])
        inRoute1 == inRoute \/ StartsRoute(trimmedLine)
        count1 == IF StartsRoute(trimmedLine) THEN 0 ELSE routeBraceCount
        count2 == IF inRoute1
                  THEN count1 + CountTok(lines[i], Open) - CountTok(lines[i], Brace)
                  ELSE count1
        inRoute2 == inRoute1 /\ count2 > 0
        block == CollectBlock(lines, i + 1, 1)
    IN (IF ~inRoute2 /\ OpensAuth(trimmedLine) /\ block.braceCount = 0
        THEN parseBasicAuthBlock(block.authContent, <<"/">>, siteID)
        ELSE <<>>)
       \o DirectAuths(lines, i + 1, inRoute2, count2, siteID)

extractBasicAuthFromConfig(content, siteID) ==
  RouteAuths(RouteMatches(content, 1), siteID)
  \o DirectAuths(SplitLines(content), 1, FALSE, 0, siteID)

(***************************************************************************)
(* scanCaddyConfigs and runMigrate.  caddyFiles is the available-sites     *)
(* directory (file name -> text), symlinks the names linked from           *)
(* enabled-sites.                                                          *)
(***************************************************************************)
MaxStanzas == 2

EndsWith(name, suffix) ==
  /\ Len(name) >= Len(suffix)
  /\ SubSeq(name, Len(name) - Len(suffix) + 1, Len(name)) = suffix

\* hidden files and common non-config files
SkippedName(fileName) ==
  \/ HasPrefix(fileName, ".")
  \/ fileName = <<"README">>
  \/ fileName = <<"README", ".", "m", "d">>
  \/ EndsWith(fileName, <<".", "t", "x", "t">>)
  \/ EndsWith(fileName, <<".", "l", "o", "g">>)
  \/ EndsWith(fileName, <<".", "c", "o", "n", "f">>)

\* the patterns a hand-written text holds as tokens of their own
CaddyPatterns ==
  {Open, "root * ", KwFastcgi, KwFileServer, "encode gzip", KwTryFiles, "redir", KwRoute,
   KwHandle}

isValidCaddyConfig(content) == Cardinality(CaddyPatterns \cap Range(content)) >= 2

\* os.ReadDir returns the entries sorted by file name
RECURSIVE SortNames(_)
SortNames(names) ==
  IF names = {} THEN <<>>
  ELSE LET first == CHOOSE a \in names : \A b \in names \ {a} : StrLess(a, b)
       IN <<first>> \o SortNames(names \ {first})

\* one round of the parsing loop: a file that fails to parse is skipped
ScanStepAbort(r, fileName, rest) ==
  IF r.err # "" THEN [sites |-> <<>>, configFiles |-> <<>>]
  ELSE [sites |-> <<r.site>> \o rest.sites,
        configFiles |-> [d \in DOMAIN rest.configFiles \cup {r.site.Domain} |->
                           IF d \in DOMAIN rest.configFiles THEN rest.configFiles[d]
                           ELSE fileName]]

ScanStep(r, fileName, rest) ==
  IF r.err # "" THEN rest
  ELSE [sites |-> <<r.site>> \o rest.sites,
        configFiles |-> [d \in DOMAIN rest.configFiles \cup {r.site.Domain} |->
                           IF d \in DOMAIN rest.configFiles THEN rest.configFiles[d]
                           ELSE fileName]]

RECURSIVE ParseFiles(_, _, _, _)
ParseFiles(names, files, links, wpConfigs) ==
  IF names = <<>> THEN [sites |-> <<>>, configFiles |-> <<>>]
  ELSE ScanStep(parseCaddyConfig(Head(names), files[Head(names)], Head(names) \in links,
                                 wpConfigs),
                Head(names),
                ParseFiles(Tail(names), files, links, wpConfigs))

scanCaddyConfigs(files, links, wpConfigs) ==
  ParseFiles(SortNames({f \in DOMAIN files : ~SkippedName(f) /\ isValidCaddyConfig(files[f])}),
             files, links, wpConfigs)

\* db.CreateBasicAuth for each extracted rule; a failure is a warning
RECURSIVE StoreAuths(_, _)
StoreAuths(s, auths) ==
  IF auths = <<>> THEN s
  ELSE LET r == DBCreateBasicAuth(s, Head(auths))
       IN StoreAuths(IF r.err # "" THEN s ELSE r, Tail(auths))

\* one site of the migration loop, created, with the rules read from its file
StoreRules(run, created, domain, basicAuths) ==
  [s |-> StoreAuths(created, basicAuths),
   extracted |-> [d \in DOMAIN run.extracted \cup {domain} |->
                    IF d = domain THEN basicAuths ELSE run.extracted[d]],
   migrated |-> run.migrated + 1]

\* db.CreateSite for one scanned site; a failure skips the site
StoreSite(run, created, site, configFiles, files) ==
  IF created.err # "" THEN run
  ELSE StoreRules(run, created, site.Domain,
                  extractBasicAuthFromConfig(files[configFiles[site.Domain]], created.siteId))

\* the migration loop; run.s is the store, run.extracted the rules read per domain
RECURSIVE StoreSites(_, _, _, _)
StoreSites(run, siteList, configFiles, files) ==
  IF siteList = <<>> THEN run
  ELSE StoreSites(StoreSite(run, DBCreateSite(run.s, Head(siteList)), Head(siteList),
                            configFiles, files),
                  Tail(siteList), configFiles, files)

\* the outcome of a run that stored nothing
NotStored(s, scan) ==
  [s |-> s, extracted |-> <<>>, migrated |-> 0, scanned |-> scan.sites,
   configFiles |-> scan.configFiles, stored |-> FALSE]

Stored(run, scan) ==
  [s |-> run.s, extracted |-> run.extracted, migrated |-> run.migrated,
   scanned |-> scan.sites, configFiles |-> scan.configFiles, stored |-> TRUE]

NoScan == [sites |-> <<>>, configFiles |-> <<>>]

\* runMigrate from the scan on
migrateScanned(s, env, scan) ==
  IF scan.sites = <<>> THEN NotStored(s, NoScan)
  ELSE IF env.dry THEN NotStored(s, scan)
  ELSE IF ~env.force /\ env.response \notin {"y", "yes"} THEN NotStored(s, scan)
  ELSE Stored(StoreSites([s |-> s, extracted |-> <<>>, migrated |-> 0],
                         scan.sites, scan.configFiles, s.caddyFiles),
              scan)

\* env.force, env.skipBackup, env.dry: the flags; env.response: the answer to the prompt
\* the backup of the store file: "none" when createDatabaseBackup was not
\* called, "written" when it returned nil, "failed" when it returned an error
WithBackup(r, backup) == r @@ [backup |-> backup]

\* runMigrate calling createDatabaseBackup before the check for existing sites
runMigrateBackupFirst(s, env, wpConfigs) ==
  IF s.sites # {} /\ ~env.force
  THEN WithBackup(NotStored(s, NoScan),
                  IF ~env.skipBackup /\ ~env.dry THEN "written" ELSE "none")
  ELSE IF ~env.skipBackup /\ ~env.dry /\ s.sites # {} /\ env.failAt = "backup"
  THEN WithBackup(NotStored(Fail(s, "failed to create database backup"), NoScan), "failed")
  ELSE WithBackup(migrateScanned(s, env, scanCaddyConfigs(s.caddyFiles, s.symlinks, wpConfigs)),
                  IF ~env.skipBackup /\ ~env.dry /\ s.sites # {} THEN "written" ELSE "none")

runMigrate(s, env, wpConfigs) ==
  IF s.sites # {} /\ ~env.force THEN WithBackup(NotStored(s, NoScan), "none")
  ELSE IF ~env.skipBackup /\ ~env.dry /\ s.sites # {} /\ env.failAt = "backup"
  THEN WithBackup(NotStored(Fail(s, "failed to create database backup"), NoScan), "failed")
  ELSE WithBackup(migrateScanned(s, env, scanCaddyConfigs(s.caddyFiles, s.symlinks, wpConfigs)),
                  IF ~env.skipBackup /\ ~env.dry /\ s.sites # {} THEN "written" ELSE "none")

(***************************************************************************)
(* Site files written by hand, as the migration finds them.                *)
(***************************************************************************)
LegacyHead(label) == label \o <<" ", Open, NL, "\t", KwFileServer, NL>>

RouteStanza(sep, pattern, user, hash) ==
  <<"\t", KwRoute, sep>> \o pattern
  \o <<" ", Open, NL, "\t", "\t", KwBasicAuth, " ", Open, NL, "\t", "\t", "\t">>
  \o user \o <<" ">> \o hash
  \o <<NL, "\t", "\t", Brace, NL, "\t", Brace, NL>>

DirectStanza(user, hash) ==
  <<"\t", KwBasicAuth, " ", Open, NL, "\t", "\t">> \o user \o <<" ">> \o hash
  \o <<NL, "\t", Brace, NL>>

LegacyHash == <<"$2a$14$h1">>

LegacyStanzas ==
  {RouteStanza("\t", <<"/", "a", "*">>, <<"u">>, LegacyHash),
   RouteStanza(" ", <<"/", "wp-admin", "*">>, <<"u">>, LegacyHash),
   RouteStanza(" ", <<"*">>, <<"v">>, LegacyHash),
   DirectStanza(<<"u">>, LegacyHash)}

\* the label of a snippet: a block that names no domain
SnippetLabel == <<"(", "x", ")">>
LegacyLabels == {DomainDot, DomainHyphen, SnippetLabel}

LegacyText(label, stanzas) == LegacyHead(label) \o Flatten(stanzas) \o <<Brace, NL>>

LegacyTexts ==
  {LegacyText(label, stanzas) : label \in LegacyLabels,
                                stanzas \in SeqsUpTo(LegacyStanzas, MaxStanzas)}

\* a file name that is a domain, and one that is not
FileNames == {DomainDot, <<"x">>}

\* a second file next to the first one: a site, a snippet, or a hidden file
SecondFiles ==
  {[name |-> DomainHyphen,
    text |-> LegacyText(DomainHyphen, <<DirectStanza(<<"v">>, LegacyHash)>>)],
   [name |-> DomainHyphen, text |-> LegacyText(SnippetLabel, <<>>)],
   [name |-> <<"1">>, text |-> LegacyText(SnippetLabel, <<>>)],
   [name |-> <<".", "a">>, text |-> LegacyText(DomainHyphen, <<>>)]}

LegacyDirs ==
  {[f \in {n1} |-> t1] : n1 \in FileNames, t1 \in LegacyTexts}
  \cup {[f \in {n1, second.name} |-> IF f = n1 THEN t1 ELSE second.text] :
          n1 \in FileNames, t1 \in LegacyTexts, second \in SecondFiles}

\* a store that already holds a site (migrate --force on top of it)
StoredBefore ==
  [ID |-> 1, Domain |-> DomainDot, DocumentRoot |-> <<"/var/www/sites/">> \o DomainDot,
   PHPVersion |-> <<"8.3">>, IsWordPress |-> FALSE, IsEnabled |-> FALSE,
   MaxUpload |-> DefaultMaxUpload, DBName |-> <<>>, DBUser |-> <<>>,
   PoolName |-> generatePoolName(DomainDot)]

InitMigrate ==
  /\ basic_auths = {}
  /\ \/ sites = {} /\ nextId = 1
     \/ sites = {StoredBefore} /\ nextId = 2
  /\ caddyFiles \in LegacyDirs
  /\ symlinks \in {{}, {DomainDot}}
  /\ poolFiles = <<>>
  /\ docRoots = {}
  /\ last = [op |-> "init", domain |-> <<>>, dry |-> FALSE, err |-> "", calls |-> <<>>,
             siteId |-> 0, onlySizeOps |-> TRUE]
  /\ scope = IdleScope
  /\ poolRun = [pc |-> "idle"]
  /\ spliceRun = [pc |-> "idle"]
  /\ tripRun = [pc |-> "idle"]
  /\ migRun = [pc |-> "start"]
  /\ raceRun = [pc |-> "idle"]
  /\ fnRun = [pc |-> "idle"]

\* the store and the record of the run after runMigrate returned r
CommitMigrate(r, force, dry, response) ==
  /\ sites' = r.s.sites
  /\ basic_auths' = r.s.basic_auths
  /\ nextId' = r.s.nextId
  /\ last' = [last EXCEPT !.op = "migrate", !.dry = dry, !.err = r.s.err]
  /\ migRun' = [pc |-> "done", scanned |-> r.scanned, configFiles |-> r.configFiles,
                extracted |-> r.extracted, migrated |-> r.migrated,
                stored |-> r.stored, before |-> sites, force |-> force,
                response |-> response, backup |-> r.backup]

DoMigrate ==
  /\ migRun.pc = "start"
  /\ \E force \in BOOLEAN, dry \in BOOLEAN :
     \E response \in IF force THEN {"y"} ELSE {"y", "n"},
        skipBackup \in BOOLEAN,
        failAt \in IF force /\ ~dry /\ sites # {} THEN {"none", "backup"} ELSE {"none"} :
       CommitMigrate(runMigrate(St, [force |-> force, dry |-> dry, skipBackup |-> skipBackup,
                                     response |-> response, failAt |-> failAt], <<>>),
                     force, dry, response)
  /\ UNCHANGED <<caddyFiles, symlinks, poolFiles, docRoots, scope, poolRun, spliceRun, tripRun,
               raceRun, fnRun>>

NextMigrate == DoMigrate

SpecMigrate == InitMigrate /\ [][NextMigrate]_vars

(***************************************************************************)
(* The stanzas of a text and the route block each is nested in, read off   *)
(* the block structure line by line.                                       *)
(***************************************************************************)
\* the path of the innermost route block on the stack, without the wildcard
RECURSIVE ScopePath(_)
ScopePath(stack) ==
  IF stack = <<>> THEN <<"/">>
  ELSE IF stack[Len(stack)].kind = "route" THEN TrimSuffixStar(stack[Len(stack)].path)
  ELSE ScopePath(SubSeq(stack, 1, Len(stack) - 1))

RECURSIVE ScopedRules(_, _)
ScopedRules(lines, stack) ==
  IF lines = <<>> THEN {}
  ELSE
    LET words == Fields(Head(lines))
        rest == Tail(lines)
    IN IF words = <<>> THEN ScopedRules(rest, stack)
       ELSE IF words[Len(words)] = <<Open>>
       THEN ScopedRules(rest,
              Append(stack,
                     IF words[1] = <<KwRoute>> /\ Len(words) >= 3
                     THEN [kind |-> "route", path |-> words[2]]
                     ELSE IF words[1] = <<KwBasicAuth>>
                     THEN [kind |-> "auth", path |-> ScopePath(stack)]
                     ELSE [kind |-> "other", path |-> <<>>]))
       ELSE IF words = <<(<<Brace>>)>>
       THEN ScopedRules(rest, IF stack = <<>> THEN stack
                              ELSE SubSeq(stack, 1, Len(stack) - 1))
       ELSE IF stack # <<>> /\ stack[Len(stack)].kind = "auth" /\ Len(words) >= 2
       THEN {[Path |-> stack[Len(stack)].path, Username |-> words[1]]}
            \cup ScopedRules(rest, stack)
       ELSE ScopedRules(rest, stack)

RulePairs(auths) == {[Path |-> auths[i].Path, Username |-> auths[i].Username] :
                       i \in 1..Len(auths)}

\* C13: the rules read from a migrated file are rules of its stanzas, each
\* under the path of the route block the stanza is nested in (wildcard
\* stripped), or under "/" when the stanza is in no route block.
C13_StanzaScopedToOnePath ==
  migRun.pc = "done" =>
    \A d \in DOMAIN migRun.extracted :
      RulePairs(migRun.extracted[d])
        \subseteq ScopedRules(SplitLines(caddyFiles[migRun.configFiles[d]]), <<>>)

\* the files of the directory that scanCaddyConfigs hands to the parser
Candidates == {f \in DOMAIN caddyFiles : ~SkippedName(f) /\ isValidCaddyConfig(caddyFiles[f])}

ParsedFile(f) == parseCaddyConfig(f, caddyFiles[f], f \in symlinks, <<>>)

\* the run got past the checks that come before the batch: the store was empty
\* or --force was given, it was no dry run, the backup worked and the prompt
\* was answered with yes
BatchRan ==
  /\ migRun.pc = "done"
  /\ migRun.before = {} \/ migRun.force
  /\ ~last.dry
  /\ last.err = ""
  /\ migRun.force \/ migRun.response \in {"y", "yes"}

C16_StoredPathsAbsolute ==
  \A a \in basic_auths : a.Path # <<>> /\ Head(a.Path) = "/"

(***************************************************************************)
(* auth-add on its own: rules are added to one site, and the arguments of  *)
(* the last call are kept in `last`.                                       *)
(***************************************************************************)
\* the state after `create a.b` on an empty installation
AuthStart ==
  CreateSite([sites |-> {}, basic_auths |-> {}, nextId |-> 1, caddyFiles |-> <<>>,
              symlinks |-> {}, poolFiles |-> <<>>, docRoots |-> {}, calls |-> <<>>,
              err |-> "", siteId |-> 0],
             [Domain |-> DomainDot, WordPress |-> FALSE, MaxUpload |-> <<>>,
              PHPVersion |-> <<>>],
             FALSE, NoEnv)

AuthFailPoints == {"none", "caddy hash-password", "htpasswd", "systemctl reload caddy"}

InitAuth ==
  /\ sites = AuthStart.sites
  /\ basic_auths = AuthStart.basic_auths
  /\ nextId = AuthStart.nextId
  /\ caddyFiles = AuthStart.caddyFiles
  /\ symlinks = AuthStart.symlinks
  /\ poolFiles = AuthStart.poolFiles
  /\ docRoots = AuthStart.docRoots
  /\ last = [op |-> "CreateSite", domain |-> DomainDot, dry |-> FALSE, err |-> AuthStart.err,
             calls |-> AuthStart.calls, siteId |-> AuthStart.siteId, onlySizeOps |-> TRUE]
  /\ scope = IdleScope
  /\ PureIdle

\* the state and the record of the call after AddBasicAuth returned r
CommitAuth(r, path, username, password, hash, dry, failAt) ==
  /\ sites' = r.sites
  /\ basic_auths' = r.basic_auths
  /\ nextId' = r.nextId
  /\ caddyFiles' = r.caddyFiles
  /\ symlinks' = r.symlinks
  /\ poolFiles' = r.poolFiles
  /\ docRoots' = r.docRoots
  /\ last' = [op |-> "AddBasicAuth", domain |-> DomainDot, dry |-> dry, err |-> r.err,
              calls |-> r.calls, siteId |-> r.siteId, onlySizeOps |-> FALSE,
              path |-> path, username |-> username, password |-> password, hash |-> hash,
              failAt |-> failAt]
  /\ UNCHANGED <<scope, poolRun, spliceRun, tripRun, migRun, raceRun, fnRun>>

DoAuthAdd ==
  \E path \in InputPaths, username \in Usernames, password \in Passwords,
     hash \in SpliceHashes, dry \in BOOLEAN, failAt \in AuthFailPoints,
     mapOrder \in Perms(StoredPaths) :
    /\ dry => failAt = "none"
    /\ CommitAuth(AddBasicAuth(St, DomainDot, path, username, password, dry,
                               [NoEnv EXCEPT !.failAt = failAt, !.hash = hash,
                                             !.mapOrder = mapOrder]),
                  path, username, password, hash, dry, failAt)

NextAuth == DoAuthAdd

SpecAuth == InitAuth /\ [][NextAuth]_vars

\* the path AddBasicAuth stores for an argument
StoredPath(rawPath) == IF HasPrefix(rawPath, "/") THEN rawPath ELSE <<"/">> \o rawPath

\* the call just made named a (path, username) the site already had
AddedDuplicate ==
  /\ last'.op = "AddBasicAuth"
  /\ last'.path # <<>>
  /\ \E a \in basic_auths : a.Path = StoredPath(last'.path) /\ a.Username = last'.username

\* the call just made named a new username on a path the site already had
AddedSecondUser ==
  /\ last'.op = "AddBasicAuth"
  /\ last'.path # <<>>
  /\ ~last'.dry
  /\ last'.failAt = "none"
  /\ \E a \in basic_auths : a.Path = StoredPath(last'.path)
  /\ \A a \in basic_auths : a.Path = StoredPath(last'.path) => a.Username # last'.username

UniquePerSite ==
  \A a, b \in basic_auths :
    (a.SiteID = b.SiteID /\ a.Path = b.Path /\ a.Username = b.Username) => a = b

SecondUserAccepted ==
  AddedSecondUser =>
    /\ last'.err = ""
    /\ [SiteID |-> last'.siteId, Path |-> StoredPath(last'.path),
        Username |-> last'.username, Password |-> last'.hash] \in basic_auths'

\* C15 as stated: (path, username) is unique within a site; every AddBasicAuth
\* for a pair the site already has returns an error and leaves the rules and
\* the site file as they were; a second username on the same path is accepted.
C15_DuplicateAlwaysRejected ==
  /\ []UniquePerSite
  /\ [][/\ AddedDuplicate =>
             last'.err # "" /\ basic_auths' = basic_auths /\ caddyFiles' = caddyFiles
        /\ SecondUserAccepted]_vars

\* C15, amended: the same, for calls that are not dry runs; a dry run changes
\* nothing either, but returns no error.
C15_DuplicateRejected ==
  /\ []UniquePerSite
  /\ [][/\ (AddedDuplicate /\ ~last'.dry) =>
             last'.err # "" /\ basic_auths' = basic_auths /\ caddyFiles' = caddyFiles
        /\ AddedDuplicate => basic_auths' = basic_auths /\ caddyFiles' = caddyFiles
        /\ SecondUserAccepted]_vars

\* a duplicate was rejected by the store while the path holds two usernames
C15_Witness ==
  /\ last.op = "AddBasicAuth"
  /\ ~last.dry
  /\ last.err = "failed to store basic auth in database"
  /\ \E a, b \in basic_auths : a.Path = b.Path /\ a.Username # b.Username

(***************************************************************************)
(* create and max-upload with arguments of any form.                       *)
(***************************************************************************)
AnyDomains == SeqsUpTo(DomainAlphabet, MaxDomainLen)
AnySizes == {<<>>, <<"2", "G">>, <<"x">>, <<"2">>}

InitValidate == MainInit /\ scope = IdleScope /\ PureIdle

\* the state and the record of the call after a command returned r
CommitSized(r, op, domain, size, dry) ==
  /\ sites' = r.sites
  /\ basic_auths' = r.basic_auths
  /\ nextId' = r.nextId
  /\ caddyFiles' = r.caddyFiles
  /\ symlinks' = r.symlinks
  /\ poolFiles' = r.poolFiles
  /\ docRoots' = r.docRoots
  /\ last' = [op |-> op, domain |-> domain, dry |-> dry, err |-> r.err, calls |-> r.calls,
              siteId |-> r.siteId, onlySizeOps |-> FALSE, size |-> size]
  /\ UNCHANGED <<scope, poolRun, spliceRun, tripRun, migRun, raceRun, fnRun>>

DoCreateAny ==
  \E d \in AnyDomains, size \in AnySizes :
    /\ sites = {}
    /\ CommitSized(CreateSite(St, [Domain |-> d, WordPress |-> FALSE, MaxUpload |-> size,
                                   PHPVersion |-> <<>>],
                              FALSE, NoEnv),
                   "CreateSite", d, size, FALSE)

DoModifyAny ==
  \E site \in sites, size \in AnySizes, mapOrder \in Perms(StoredPaths) :
    CommitSized(ModifyMaxUpload(St, site.Domain, size, FALSE,
                                [NoEnv EXCEPT !.mapOrder = mapOrder]),
                "ModifyMaxUpload", site.Domain, size, FALSE)

NextValidate == DoCreateAny \/ DoModifyAny

SpecValidate == InitValidate /\ [][NextValidate]_vars

\* nothing of the installation changed and no external command ran
Untouched ==
  /\ UNCHANGED <<sites, basic_auths, nextId, caddyFiles, symlinks, poolFiles, docRoots>>
  /\ last'.calls = <<>>

\* C17: CreateSite with a malformed domain or size token, and ModifyMaxUpload
\* with a malformed size token, return an error and leave the store, the
\* files, the symlinks and the external services untouched.
C17_RejectedBeforeSideEffects ==
  [][/\ (/\ last'.op = "CreateSite"
         /\ \/ ~isValidDomain(last'.domain)
            \/ last'.size # <<>> /\ ~validateSizeFormat(last'.size))
          => last'.err # "" /\ Untouched
     /\ (last'.op = "ModifyMaxUpload" /\ ~validateSizeFormat(last'.size))
          => last'.err # "" /\ Untouched]_vars

\* the errors of the restart and reload calls, and the command each comes from
ServiceErrors ==
  {"failed to restart PHP-FPM", "caddy configuration validation failed", "failed to reload Caddy"}

CommandOf(err) ==
  CASE err = "failed to restart PHP-FPM" -> "systemctl restart php-fpm"
    [] err = "caddy configuration validation failed" -> "caddy validate"
    [] err = "failed to reload Caddy" -> "systemctl reload caddy"

AbortingOps ==
  {"CreateSite", "ModifyMaxUpload", "AddBasicAuth", "RemoveBasicAuth", "DeleteSite --hard"}

\* C18: when a restart of PHP-FPM or a validation or reload of Caddy fails in
\* CreateSite, ModifyMaxUpload, AddBasicAuth, RemoveBasicAuth or a hard delete,
\* the operation returns that error, the failed call is the last external call
\* of the operation, and what the later steps would have changed is unchanged.
C18_FailedServiceCallAborts ==
  [][(last'.op \in AbortingOps /\ last'.err \in ServiceErrors) =>
       /\ last'.calls # <<>>
       /\ last'.calls[Len(last'.calls)] = CommandOf(last'.err)
       /\ (last'.op = "CreateSite" /\ last'.err = "failed to restart PHP-FPM")
            => /\ (<<"/var/www/sites/">> \o last'.domain) \notin docRoots'
               /\ last'.domain \notin DOMAIN caddyFiles'
               /\ sites' = sites
               /\ symlinks' \subseteq symlinks
       /\ (last'.op = "DeleteSite --hard" /\ last'.err = "failed to restart PHP-FPM")
            => UNCHANGED <<symlinks, caddyFiles, sites, docRoots>>
       /\ (last'.op = "DeleteSite --hard" /\ last'.err = "failed to reload Caddy")
            => UNCHANGED docRoots]_vars

\* a hard delete stopped at the failed reload: the record is gone, the
\* document root is still there
C18_Witness ==
  /\ last.op = "DeleteSite --hard"
  /\ last.err = "failed to reload Caddy"
  /\ ~SiteExists(St, last.domain)
  /\ (<<"/var/www/sites/">> \o last.domain) \in docRoots

\* C19: after an AddBasicAuth that is no dry run, every stored rule holds the
\* output of the hashing command and not the password given, no site file
\* holds the password given, the site file holds the hash when the call
\* succeeded, and nothing is stored or written when hashing failed.
C19_NoPlaintextPersisted ==
  [][(last'.op = "AddBasicAuth" /\ ~last'.dry) =>
       /\ \A a \in basic_auths' \ basic_auths :
            a.Password = last'.hash /\ a.Password # last'.password
       /\ \A a \in basic_auths' : a.Password \notin Passwords
       /\ \A d \in DOMAIN caddyFiles' : \A i \in 1..Len(caddyFiles'[d]) :
            caddyFiles'[d][i] \notin Range(last'.password)
       /\ last'.err = "" =>
            \E i \in 1..Len(caddyFiles'[last'.domain]) :
              caddyFiles'[last'.domain][i] \in Range(last'.hash)
       /\ last'.failAt = "htpasswd" =>
            /\ last'.err # ""
            /\ UNCHANGED <<sites, basic_auths, caddyFiles, symlinks, poolFiles, docRoots>>]_vars

\* a rule was stored with the hash, for a call that gave a password
C19_Witness ==
  /\ last.op = "AddBasicAuth"
  /\ ~last.dry
  /\ last.err = ""
  /\ last.password # <<>>
  /\ \E a \in basic_auths :
       /\ a.Path = StoredPath(last.path)
       /\ a.Username = last.username
       /\ a.Password = last.hash

DomainUnique == \A x, y \in sites : x.Domain = y.Domain => x = y

\* C20: no two records have the same domain, and CreateSite for a domain that
\* has a record returns the "already exists" error and changes neither the
\* record nor the pool file, the site file, the symlink or the document root.
C20_DomainIsUniqueKey ==
  /\ []DomainUnique
  /\ [][(last'.op = "CreateSite" /\ SiteExists(St, last'.domain)) =>
          /\ last'.err = "site already exists"
          /\ last'.calls = <<>>
          /\ UNCHANGED <<sites, basic_auths, nextId, caddyFiles, symlinks, poolFiles,
                         docRoots>>]_vars

\* CreateSite was refused for a domain that has a record
C20_Witness ==
  /\ last.op = "CreateSite"
  /\ last.err = "site already exists"
  /\ SiteExists(St, last.domain)
  /\ last.domain \in DOMAIN caddyFiles

(***************************************************************************)
(* Enablement: soft delete, enable and disable.                            *)
(***************************************************************************)
\* the installation after the step, as the record the operations work on
StAfter ==
  [sites |-> sites', basic_auths |-> basic_auths', nextId |-> nextId',
   caddyFiles |-> caddyFiles', symlinks |-> symlinks', poolFiles |-> poolFiles',
   docRoots |-> docRoots', calls |-> <<>>, err |-> "", siteId |-> 0]

\* the records with the one of a domain marked enabled or disabled
WithEnabled(rows, domain, flag) ==
  {IF x.Domain = domain THEN [x EXCEPT !.IsEnabled = flag] ELSE x : x \in rows}

\* C21: a successful DeleteSite without --hard (no dry run) removes the
\* symlink and marks the record disabled; the record otherwise, the rules, the
\* site file, the pool file and the document root are unchanged, and an
\* EnableSite right after it succeeds, marks the record enabled and puts the
\* symlink back.
C21_SoftDeleteOnlyDisables ==
  [][(last'.op = "DeleteSite" /\ ~last'.dry /\ last'.err = "") =>
       /\ SiteExists(St, last'.domain)
       /\ last'.domain \notin symlinks'
       /\ symlinks' = symlinks \ {last'.domain}
       /\ sites' = WithEnabled(sites, last'.domain, FALSE)
       /\ UNCHANGED <<basic_auths, nextId, caddyFiles, poolFiles, docRoots>>
       /\ EnableSite(StAfter, last'.domain, FALSE).err = ""
       /\ EnableSite(StAfter, last'.domain, FALSE).sites = WithEnabled(sites, last'.domain, TRUE)
       /\ EnableSite(StAfter, last'.domain, FALSE).symlinks = symlinks \cup {last'.domain}]_vars

(***************************************************************************)
(* Two auth-add invocations on one domain, step by step.  Each invocation  *)
(* is a process of its own (one run of the command line tool): it stores   *)
(* its rule, reads the site and its rules back from the store, and writes  *)
(* the site file rendered from what it read.  Nothing orders the steps of  *)
(* one invocation against those of the other; in a serial run the second   *)
(* invocation starts when the first has returned.                          *)
(***************************************************************************)
Invocations == {1, 2}

RaceArgs ==
  {[pc |-> "start", path |-> p, username |-> u, hash |-> LegacyHash, siteId |-> 0,
    read |-> [sites |-> {}, basic_auths |-> {}]] : p \in InputPaths \ {<<>>}, u \in Usernames}

InitRace ==
  /\ sites = AuthStart.sites
  /\ basic_auths = AuthStart.basic_auths
  /\ nextId = AuthStart.nextId
  /\ caddyFiles = AuthStart.caddyFiles
  /\ symlinks = AuthStart.symlinks
  /\ poolFiles = AuthStart.poolFiles
  /\ docRoots = AuthStart.docRoots
  /\ last = [op |-> "CreateSite", domain |-> DomainDot, dry |-> FALSE, err |-> AuthStart.err,
             calls |-> AuthStart.calls, siteId |-> AuthStart.siteId, onlySizeOps |-> TRUE]
  /\ scope = IdleScope
  /\ poolRun = [pc |-> "idle"]
  /\ spliceRun = [pc |-> "idle"]
  /\ tripRun = [pc |-> "idle"]
  /\ migRun = [pc |-> "idle"]
  /\ fnRun = [pc |-> "idle"]
  /\ raceRun \in {[pc |-> "run", serial |-> sr, inv |-> [p \in Invocations |-> IF p = 1 THEN a ELSE b]] :
                    sr \in BOOLEAN, a \in RaceArgs, b \in RaceArgs}

\* the other invocation has not started or has returned
Alone(p) == \A q \in Invocations \ {p} : raceRun.inv[q].pc \in {"start", "done", "failed"}

MayStep(p) == raceRun.pc = "run" /\ (raceRun.serial => Alone(p))

\* AddBasicAuth up to DB.CreateBasicAuth: the path is normalised, the site is
\* read, the password is hashed and the rule is inserted
RaceStore(p) ==
  LET me == raceRun.inv[p]
      site == GetSite(St, DomainDot)
      r == DBCreateBasicAuth(St, [SiteID |-> site.ID,
                                  Path |-> IF HasPrefix(me.path, "/") THEN me.path
                                           ELSE <<"/">> \o me.path,
                                  Username |-> me.username, Password |-> me.hash])
  IN /\ MayStep(p)
     /\ me.pc = "start"
     /\ basic_auths' = r.basic_auths
     /\ raceRun' = [raceRun EXCEPT !.inv[p].pc = IF r.err # "" THEN "failed" ELSE "stored",
                                   !.inv[p].siteId = site.ID]
     /\ UNCHANGED <<sites, nextId, caddyFiles, symlinks, poolFiles, docRoots, last, scope,
                    poolRun, spliceRun, tripRun, migRun, fnRun>>

\* regenerateCaddyConfig, first half: ListSites and GetSiteWithAuth
RaceRead(p) ==
  /\ MayStep(p)
  /\ raceRun.inv[p].pc = "stored"
  /\ raceRun' = [raceRun EXCEPT !.inv[p].pc = "read",
                                !.inv[p].read = [sites |-> sites, basic_auths |-> basic_auths]]
  /\ UNCHANGED <<mainVars, scope, poolRun, spliceRun, tripRun, migRun, fnRun>>

\* regenerateCaddyConfig, second half: the text is rendered from what was read
\* and written with os.WriteFile; then Caddy is reloaded
RaceWrite(p) ==
  LET me == raceRun.inv[p]
  IN /\ MayStep(p)
     /\ me.pc = "read"
     /\ \E mapOrder \in Perms(StoredPaths) :
          caddyFiles' = regenerateCaddyConfig([St EXCEPT !.sites = me.read.sites,
                                                         !.basic_auths = me.read.basic_auths],
                                              me.siteId, DomainDot, FALSE,
                                              [NoEnv EXCEPT !.mapOrder = mapOrder]).caddyFiles
     /\ raceRun' = [raceRun EXCEPT !.inv[p].pc = "done"]
     /\ UNCHANGED <<sites, basic_auths, nextId, symlinks, poolFiles, docRoots, last, scope,
                    poolRun, spliceRun, tripRun, migRun, fnRun>>

NextRace == \E p \in Invocations : RaceStore(p) \/ RaceRead(p) \/ RaceWrite(p)

SpecRace == InitRace /\ [][NextRace]_vars

\* the site file of a.b has no stanza line for a rule that is in the store
FileOmitsRule ==
  \E a \in basic_auths :
    ~\E i \in RouteOpens(caddyFiles[DomainDot]) :
       /\ PatternAt(caddyFiles[DomainDot], i) = PatternOf(a.Path)
       /\ <<a.Username, a.Password>> \in Range(LinesAt(caddyFiles[DomainDot], i))

\* no invocation is under way
Quiet == \A p \in Invocations : raceRun.inv[p].pc \in {"start", "done", "failed"}

\* C22: with one invocation at a time, whenever no invocation is under way the
\* site file holds every rule of the store; the witness is the final state of
\* two interleaved invocations in which the site file omits a stored rule.
C22_SerialFileHoldsEveryRule ==
  (raceRun.pc = "run" /\ raceRun.serial /\ Quiet) => ~FileOmitsRule

\* both invocations returned without error, interleaved, and a stored rule is
\* missing from the site file
C22_Witness ==
  /\ raceRun.pc = "run"
  /\ ~raceRun.serial
  /\ \A p \in Invocations : raceRun.inv[p].pc = "done"
  /\ FileOmitsRule

(***************************************************************************)
(* addBasicAuthToConfig on texts of any shape: the insertion point.        *)
(***************************************************************************)
MaxTextLen == 4

\* the directives the search looks for, the closing brace, and any other line
AnchorTokens == {KwTryFiles, KwFastcgi, KwFileServer, Brace, "x"}

\* texts in which the search finds an insertion point, the two templates among them
AnchorTexts ==
  {t \in SeqsUpTo(AnchorTokens, MaxTextLen) :
     \E i \in 1..Len(t) : t[i] \in {KwTryFiles, KwFastcgi, KwFileServer, Brace}}
  \cup {ExecuteSiteTemplate(st) : st \in SpliceSites}

AnchorRow(path, username) ==
  [SiteID |-> 1, Path |-> path, Username |-> username, Password |-> <<"H1">>]

\* rule lists as GetBasicAuths returns them: one rule, two users on a path, two paths
AnchorRules ==
  {<<AnchorRow(<<"/", "a">>, <<"u">>)>>,
   <<AnchorRow(<<"/", "a">>, <<"u">>), AnchorRow(<<"/", "a">>, <<"v">>)>>,
   <<AnchorRow(<<"/", "a">>, <<"u">>), AnchorRow(<<"/", "b">>, <<"u">>)>>}

InitAnchor ==
  /\ MainInit
  /\ scope = IdleScope
  /\ poolRun = [pc |-> "idle"]
  /\ spliceRun = [pc |-> "idle"]
  /\ tripRun = [pc |-> "idle"]
  /\ migRun = [pc |-> "idle"]
  /\ raceRun = [pc |-> "idle"]
  /\ fnRun \in {[pc |-> "start", text |-> t, rules |-> r, out |-> <<>>] :
                  t \in AnchorTexts, r \in AnchorRules}

AnchorSplice ==
  /\ fnRun.pc = "start"
  /\ \E order \in MapOrders(fnRun.rules) :
       fnRun' = [fnRun EXCEPT !.pc = "spliced",
                              !.out = addBasicAuthToConfig(fnRun.text, fnRun.rules, order)]
  /\ UNCHANGED <<mainVars, scope, poolRun, spliceRun, tripRun, migRun, raceRun>>

NextAnchor == AnchorSplice

SpecAnchor == InitAnchor /\ [][NextAnchor]_vars

\* the directive the block goes in front of, by priority
AnchorOf(text) ==
  IF KwTryFiles \in Range(text) THEN KwTryFiles
  ELSE IF KwFastcgi \in Range(text) THEN KwFastcgi
  ELSE IF KwFileServer \in Range(text) THEN KwFileServer
  ELSE Brace

\* the stanzas of a rule list as one block, in some order of the paths
IsStanzaBlock(block, rules) ==
  \E order \in MapOrders(rules) :
    block = Flatten([i \in 1..Len(order) |-> RouteBlock(order[i], SelectPath(rules, order[i]))])
            \o <<SpliceEnd>>

\* C23: the spliced text is the text up to the anchor, the stanzas as one
\* block, and the text from the anchor on; the anchor is the first try_files
\* if there is one, else the first php_fastcgi, else the first file_server,
\* else the last closing brace.
C23_AnchorByPriority ==
  fnRun.pc = "spliced" =>
    LET text == fnRun.text
        out == fnRun.out
        added == Len(out) - Len(text)
    IN \E k \in 1..Len(text) :
         /\ text[k] = AnchorOf(text)
         /\ IF AnchorOf(text) = Brace
            THEN \A j \in (k + 1)..Len(text) : text[j] # Brace
            ELSE \A j \in 1..(k - 1) : text[j] # AnchorOf(text)
         /\ added > 0
         /\ SubSeq(out, 1, k - 1) = SubSeq(text, 1, k - 1)
         /\ IsStanzaBlock(SubSeq(out, k, k + added - 1), fnRun.rules)
         /\ SubSeq(out, k + added, Len(out)) = SubSeq(text, k, Len(text))

\* spliced into a text without try_files in which file_server comes before
\* php_fastcgi: the block is right in front of php_fastcgi
C23_Witness ==
  /\ fnRun.pc = "spliced"
  /\ fnRun.text = <<"x", KwFileServer, KwFastcgi, Brace>>
  /\ Len(fnRun.rules) = 2
  /\ fnRun.out[Len(fnRun.out) - 1] = KwFastcgi
  /\ fnRun.out[Len(fnRun.out) - 2] = SpliceEnd

(***************************************************************************)
(* CaddySiteManager.updateCaddyUploadSize: the size limit of a site file   *)
(* is changed in place.  The site texts here are made of the one-character *)
(* tokens and keyword tokens of the hand-written files.                    *)
(***************************************************************************)
MaxSizeLines == 3

\* the end of the match of max_size\s+[^\n]+ that starts at position i, or 0
MaxSizeMatchEnd(text, i) ==
  IF ~(text[i] = KwMaxSize /\ i + 1 <= Len(text) /\ text[i + 1] \in Blank) THEN 0
  ELSE LET e == NextOutside(text, i + 1, Blank)
           inRun == {k \in (i + 2)..Len(text) : text[k] # NL}
       IN IF e <= Len(text) THEN NextIn(text, e, {NL}) - 1
          ELSE IF inRun = {} THEN 0
          ELSE CHOOSE k \in inRun : \A m \in inRun : m <= k

\* the position of the "{" of the match of request_body\s*{ that starts at i, or 0
BodyMatchEnd(text, i) ==
  IF text[i] # KwRequestBody THEN 0
  ELSE LET e == NextOutside(text, i + 1, Blank)
       IN IF e <= Len(text) /\ text[e] = Open THEN e ELSE 0

\* regexp.ReplaceAllString: every match, leftmost first, is replaced
RECURSIVE ReplaceMatches(_, _, _, _)
ReplaceMatches(text, i, MatchEnd(_, _), replacement) ==
  IF i > Len(text) THEN <<>>
  ELSE IF MatchEnd(text, i) # 0
  THEN replacement \o ReplaceMatches(text, MatchEnd(text, i) + 1, MatchEnd, replacement)
  ELSE <<text[i]>> \o ReplaceMatches(text, i + 1, MatchEnd, replacement)

MatchString(text, MatchEnd(_, _)) == \E i \in 1..Len(text) : MatchEnd(text, i) # 0

updateCaddyUploadSize(s, domain, newSize) ==
  IF domain \notin DOMAIN s.caddyFiles THEN Fail(s, "failed to read Caddy config")
  ELSE
    LET configStr == s.caddyFiles[domain]
    IN IF MatchString(configStr, MaxSizeMatchEnd)
       THEN [s EXCEPT !.caddyFiles =
               WriteFile(@, domain, ReplaceMatches(configStr, 1, MaxSizeMatchEnd,
                                                   <<KwMaxSize, " ">> \o newSize))]
       ELSE IF MatchString(configStr, BodyMatchEnd)
       THEN [s EXCEPT !.caddyFiles =
               WriteFile(@, domain,
                         ReplaceMatches(configStr, 1, BodyMatchEnd,
                                        <<KwRequestBody, " ", Open, NL, "\t", "\t", KwMaxSize, " ">>
                                        \o newSize))]
       ELSE Fail(s, "could not find request_body configuration in Caddy config")

\* the lines a site block is made of here
BodyOpenLine == <<"\t", KwRequestBody, " ", Open>>
DirectiveLine == <<"\t", "\t", KwMaxSize, " ", "2", "5", "6", "M">>
NotedDirectiveLine == DirectiveLine \o <<" ", Hash, " ", "x">>
CloseLine == <<"\t", Brace>>
OtherLine == <<"\t", KwFileServer>>
RemarkLine == <<"\t", Hash, " ", KwMaxSize, " ", "x">>

SizeLines == {BodyOpenLine, DirectiveLine, NotedDirectiveLine, CloseLine, OtherLine, RemarkLine}

RECURSIVE JoinLines(_)
JoinLines(lines) == IF lines = <<>> THEN <<>> ELSE Head(lines) \o <<NL>> \o JoinLines(Tail(lines))

\* a site block with up to MaxSizeLines lines in it
SizeTexts ==
  {JoinLines(<<DomainDot \o <<" ", Open>> >> \o body \o <<(<<Brace>>)>>) :
     body \in SeqsUpTo(SizeLines, MaxSizeLines)}

InitReconcile ==
  /\ sites = {}
  /\ basic_auths = {}
  /\ nextId = 1
  /\ caddyFiles \in {[d \in {DomainDot} |-> t] : t \in SizeTexts}
  /\ symlinks = {}
  /\ poolFiles = <<>>
  /\ docRoots = {}
  /\ last = [op |-> "init", domain |-> <<>>, dry |-> FALSE, err |-> "", calls |-> <<>>,
             siteId |-> 0, onlySizeOps |-> TRUE]
  /\ scope = IdleScope
  /\ poolRun = [pc |-> "idle"]
  /\ spliceRun = [pc |-> "idle"]
  /\ tripRun = [pc |-> "idle"]
  /\ migRun = [pc |-> "idle"]
  /\ raceRun = [pc |-> "idle"]
  /\ fnRun = [pc |-> "start"]

\* the file and the record of the call after updateCaddyUploadSize returned r
CommitReconcile(r, newSize) ==
  /\ caddyFiles' = r.caddyFiles
  /\ last' = [last EXCEPT !.op = "updateCaddyUploadSize", !.domain = DomainDot, !.err = r.err]
  /\ fnRun' = [pc |-> "done", newSize |-> newSize, before |-> caddyFiles[DomainDot]]

DoUpdateCaddyUploadSize ==
  /\ fnRun.pc = "start"
  /\ \E newSize \in {<<"2", "G">>, <<"1", "G">>} :
       CommitReconcile(updateCaddyUploadSize(St, DomainDot, newSize), newSize)
  /\ UNCHANGED <<sites, basic_auths, nextId, symlinks, poolFiles, docRoots, scope, poolRun,
                 spliceRun, tripRun, migRun, raceRun>>

NextReconcile == DoUpdateCaddyUploadSize

SpecReconcile == InitReconcile /\ [][NextReconcile]_vars

\* a line that is the size-limit directive: max_size and a value
IsDirective(line) ==
  Len(Fields(line)) >= 2 /\ Fields(line)[1] = <<KwMaxSize>>

\* a line that opens the request_body block
OpensBody(line) ==
  Len(Fields(line)) >= 2 /\ Fields(line)[1] = <<KwRequestBody>>
  /\ Fields(line)[Len(Fields(line))] = <<Open>>

\* a directive line with its value and nothing else replaced
WithValue(line, newSize) ==
  LET kw == NextOutside(line, 1, Blank)
      from == NextOutside(line, kw + 1, Blank)
      to == NextIn(line, from, Blank)
  IN SubSeq(line, 1, from - 1) \o newSize \o SubSeq(line, to, Len(line))

RECURSIVE ValuesReplaced(_, _)
ValuesReplaced(lines, newSize) ==
  IF lines = <<>> THEN <<>>
  ELSE <<IF IsDirective(Head(lines)) THEN WithValue(Head(lines), newSize) ELSE Head(lines)>>
       \o ValuesReplaced(Tail(lines), newSize)

\* the directive put in as the first line of every request_body block
RECURSIVE DirectiveInserted(_, _)
DirectiveInserted(lines, newSize) ==
  IF lines = <<>> THEN <<>>
  ELSE IF OpensBody(Head(lines))
  THEN <<Head(lines), <<"\t", "\t", KwMaxSize, " ">> \o newSize>>
       \o DirectiveInserted(Tail(lines), newSize)
  ELSE <<Head(lines)>> \o DirectiveInserted(Tail(lines), newSize)

AnyLine(lines, P(_)) == \E i \in 1..Len(lines) : P(lines[i])

\* C24: if the site text has the max_size directive the new text is the old
\* one with the value of the directive replaced and nothing else; if it has
\* none but has a request_body block, the directive is the new first line of
\* the block; if it has neither, the call fails and the file is not written.
C24_SizeLimitReconciled ==
  fnRun.pc = "done" =>
    LET lines == SplitLines(fnRun.before)
        after == SplitLines(caddyFiles[DomainDot])
    IN IF AnyLine(lines, IsDirective)
       THEN last.err = "" /\ after = ValuesReplaced(lines, fnRun.newSize)
       ELSE IF AnyLine(lines, OpensBody)
       THEN last.err = "" /\ after = DirectiveInserted(lines, fnRun.newSize)
       ELSE last.err # "" /\ caddyFiles[DomainDot] = fnRun.before

\* C25: a ModifyMaxUpload that returns an error leaves the stored records
\* (the max-upload value with them), the pool files and the site files as
\* they were before the call.
C25_NoPartialWrite ==
  [][(last'.op = "ModifyMaxUpload" /\ last'.err # "") =>
       UNCHANGED <<sites, poolFiles, caddyFiles>>]_vars

(***************************************************************************)
(* Enablement: runs made only of successful CreateSite, EnableSite,        *)
(* DisableSite and soft DeleteSite calls outside dry-run.                  *)
(***************************************************************************)
EnableScope ==
  [name |-> "enablement", domains |-> SiteDomains, wordpress |-> BOOLEAN,
   paths |-> {<<"/", "a">>}, users |-> {<<"u">>}, dry |-> {FALSE}, faults |-> TRUE,
   prompts |-> FALSE, hand |-> FALSE]

InitEnable == MainInit /\ scope = EnableScope /\ PureIdle

CallSucceeded == last'.err = "" /\ ~last'.dry

OkCreateSite == DoCreateSite /\ CallSucceeded

OkEnableSite == DoEnableSite /\ CallSucceeded

OkDisableSite == DoDisableSite /\ CallSucceeded

OkSoftDelete == DoDeleteSite /\ CallSucceeded /\ last'.op = "DeleteSite"

NextEnable ==
  \/ OkCreateSite
  \/ OkEnableSite
  \/ OkDisableSite
  \/ OkSoftDelete

SpecEnable == InitEnable /\ [][NextEnable]_vars

\* C26: after successful CreateSite, EnableSite, DisableSite and soft
\* DeleteSite calls outside dry-run, in any order, a site's record has its
\* enabled flag set exactly when the symlink of its domain exists.
C26_FlagAgreesWithSymlink ==
  /\ \A site \in sites : site.IsEnabled <=> site.Domain \in symlinks
  /\ \A d \in symlinks : SiteExists(St, d)

\* C26 witness: after a soft delete one site is disabled without a symlink
\* while another is enabled with one.
C26_Witness ==
  /\ last.op = "DeleteSite"
  /\ \E a \in sites, b \in sites :
       /\ a.IsEnabled /\ a.Domain \in symlinks
       /\ ~b.IsEnabled /\ b.Domain \notin symlinks /\ b.Domain = last.domain

(***************************************************************************)
(* EnableSite and DisableSite on a record that already has the wanted flag. *)
(***************************************************************************)
StoreAndFilesUnchanged ==
  UNCHANGED <<sites, basic_auths, nextId, caddyFiles, symlinks, poolFiles, docRoots>>

RecordEnabled(domain) == SiteExists(St, domain) /\ GetSite(St, domain).IsEnabled

RecordDisabled(domain) == SiteExists(St, domain) /\ ~GetSite(St, domain).IsEnabled

\* a second EnableSite right after the first ends as the first did
EnableTwiceIsEnable ==
  last'.op = "EnableSite" =>
    EnableSite(StAfter, last'.domain, last'.dry) = [StAfter EXCEPT !.err = last'.err]

EnableOnEnabledIsNoOp ==
  (last'.op = "EnableSite" /\ RecordEnabled(last'.domain)) =>
    last'.err = "" /\ StoreAndFilesUnchanged

\* C27 as stated: EnableSite on an enabled record succeeds and changes
\* nothing, enable;enable equals enable, and DisableSite on a record that is
\* not enabled returns "site is not enabled" and changes nothing.
C27_DisableAlwaysRejected ==
  [][/\ EnableOnEnabledIsNoOp
     /\ EnableTwiceIsEnable
     /\ (last'.op = "DisableSite" /\ RecordDisabled(last'.domain)) =>
          last'.err = "site is not enabled" /\ StoreAndFilesUnchanged]_vars

\* C27 amended: as above, but DisableSite on a record that is not enabled
\* returns the error only outside dry-run; in dry-run it returns no error.
\* It changes nothing in either mode.
C27_EnableIdempotentDisableGuarded ==
  [][/\ EnableOnEnabledIsNoOp
     /\ EnableTwiceIsEnable
     /\ (last'.op = "DisableSite" /\ RecordDisabled(last'.domain)) =>
          /\ StoreAndFilesUnchanged
          /\ last'.err = (IF last'.dry THEN "" ELSE "site is not enabled")]_vars

\* C27 witness: a dry-run DisableSite on a record that is not enabled has
\* returned without error.
C27_Witness ==
  /\ last.op = "DisableSite" /\ last.dry /\ last.err = ""
  /\ SiteExists(St, last.domain) /\ ~GetSite(St, last.domain).IsEnabled

(***************************************************************************)
(* Hard deletion: what DeleteSite --hard leaves behind, outside dry-run.   *)
(***************************************************************************)
HardDeleteEnvs ==
  {[NoEnv EXCEPT !.failAt = f, !.declineAt = c] :
     f \in {"none", "mysql delete", "systemctl restart php-fpm", "systemctl reload caddy"},
     c \in {"none", "delete"}}

Declined(force, env) == ~force /\ env.declineAt = "delete"

SameStoreAndFiles(r, s) ==
  /\ r.sites = s.sites /\ r.basic_auths = s.basic_auths /\ r.nextId = s.nextId
  /\ r.caddyFiles = s.caddyFiles /\ r.symlinks = s.symlinks
  /\ r.poolFiles = s.poolFiles /\ r.docRoots = s.docRoots

\* r is what DeleteSite --hard returned for the record site
HardDeleteOutcomeOk(r, site, force, env) ==
  IF Declined(force, env)
  THEN SameStoreAndFiles(r, St) /\ r.calls = <<>>
  ELSE /\ r.err = "" =>
            /\ ~SiteExists(r, site.Domain)
            /\ site.Domain \notin DOMAIN r.caddyFiles
            /\ site.Domain \notin r.symlinks
            /\ poolConfigFile(site) \notin DOMAIN r.poolFiles
            /\ site.DocumentRoot \notin r.docRoots
       /\ r.docRoots # docRoots =>
            /\ ~SiteExists(r, site.Domain)
            /\ "systemctl reload caddy" \in Range(r.calls)
            /\ r.err = ""

\* C28: a DeleteSite --hard outside dry-run that is forced or confirmed and
\* returns no error leaves no record, site file, symlink, pool file or
\* document root of the site; the document root is removed only when the
\* record has been deleted and the Caddy reload has succeeded; a declined
\* confirmation changes nothing.
C28_HardDeleteRemovesAll ==
  \A site \in sites, force \in BOOLEAN, env \in HardDeleteEnvs :
    HardDeleteOutcomeOk(DeleteSite(St, [Domain |-> site.Domain, Hard |-> TRUE, Force |-> force],
                                   FALSE, env),
                        site, force, env)

\* C28 witness: a hard delete outside dry-run has run the Caddy reload and
\* returned without error; record, site file and document root of the domain
\* are gone while another site is still there.
C28_Witness ==
  /\ last.op = "DeleteSite --hard" /\ ~last.dry /\ last.err = "" /\ last.siteId # 0
  /\ "systemctl reload caddy" \in Range(last.calls)
  /\ ~SiteExists(St, last.domain)
  /\ last.domain \notin DOMAIN caddyFiles
  /\ (<<"/var/www/sites/">> \o last.domain) \notin docRoots
  /\ sites # {}

(***************************************************************************)
(* auth-remove: two sites, rules added by AddBasicAuth and removed by      *)
(* RemoveBasicAuth; fnRun keeps the arguments of the last removal and the  *)
(* rules stored before it.                                                 *)
(***************************************************************************)
MaxRemoveRows == 3

\* the state after `create a.b` and `create a-b` on an empty installation
RemoveStart ==
  CreateSite([AuthStart EXCEPT !.calls = <<>>, !.err = "", !.siteId = 0],
             [Domain |-> DomainHyphen, WordPress |-> FALSE, MaxUpload |-> <<>>,
              PHPVersion |-> <<>>],
             FALSE, NoEnv)

InitRemove ==
  /\ sites = RemoveStart.sites
  /\ basic_auths = RemoveStart.basic_auths
  /\ nextId = RemoveStart.nextId
  /\ caddyFiles = RemoveStart.caddyFiles
  /\ symlinks = RemoveStart.symlinks
  /\ poolFiles = RemoveStart.poolFiles
  /\ docRoots = RemoveStart.docRoots
  /\ last = [op |-> "CreateSite", domain |-> DomainHyphen, dry |-> FALSE,
             err |-> RemoveStart.err, calls |-> RemoveStart.calls,
             siteId |-> RemoveStart.siteId, onlySizeOps |-> TRUE]
  /\ scope = IdleScope
  /\ poolRun = [pc |-> "idle"]
  /\ spliceRun = [pc |-> "idle"]
  /\ tripRun = [pc |-> "idle"]
  /\ migRun = [pc |-> "idle"]
  /\ raceRun = [pc |-> "idle"]
  /\ fnRun = [pc |-> "idle"]

\* the state and the record of the call after a handler returned r
CommitRule(r, op, domain, dry, run) ==
  /\ sites' = r.sites
  /\ basic_auths' = r.basic_auths
  /\ nextId' = r.nextId
  /\ caddyFiles' = r.caddyFiles
  /\ symlinks' = r.symlinks
  /\ poolFiles' = r.poolFiles
  /\ docRoots' = r.docRoots
  /\ last' = [op |-> op, domain |-> domain, dry |-> dry, err |-> r.err, calls |-> r.calls,
              siteId |-> r.siteId, onlySizeOps |-> FALSE]
  /\ fnRun' = run
  /\ UNCHANGED <<scope, poolRun, spliceRun, tripRun, migRun, raceRun>>

\* auth-add that returns without error
DoAddRule ==
  \E d \in SiteDomains, path \in StoredPaths, username \in Usernames,
     mapOrder \in Perms(StoredPaths) :
    /\ Cardinality(basic_auths) < MaxRemoveRows
    /\ AddBasicAuth(St, d, path, username, <<"pw">>, FALSE,
                    [NoEnv EXCEPT !.hash = LegacyHash, !.mapOrder = mapOrder]).err = ""
    /\ CommitRule(AddBasicAuth(St, d, path, username, <<"pw">>, FALSE,
                               [NoEnv EXCEPT !.hash = LegacyHash, !.mapOrder = mapOrder]),
                  "AddBasicAuth", d, FALSE, [pc |-> "idle"])

DoRemoveRule ==
  \E d \in SiteDomains, path \in InputPaths, dry \in BOOLEAN,
     failAt \in {"none", "systemctl reload caddy"}, mapOrder \in Perms(StoredPaths) :
    /\ dry => failAt = "none"
    /\ CommitRule(RemoveBasicAuth(St, d, path, dry,
                                  [NoEnv EXCEPT !.failAt = failAt, !.mapOrder = mapOrder]),
                  "RemoveBasicAuth", d, dry,
                  [pc |-> "removed", domain |-> d, path |-> path, dry |-> dry,
                   failAt |-> failAt, before |-> basic_auths])

NextRemove ==
  \/ DoAddRule
  \/ DoRemoveRule

SpecRemove == InitRemove /\ [][NextRemove]_vars

SlashPath(path) == IF HasPrefix(path, "/") THEN path ELSE <<"/">> \o path

\* the rules the last removal named: those of its site with its path
NamedRules == 
  {a \in fnRun.before : a.SiteID = GetSite(St, fnRun.domain).ID /\ a.Path = SlashPath(fnRun.path)}

\* C29 as stated: RemoveBasicAuth deletes every rule of the site with exactly
\* the slash-normalized path, whatever the username, leaves every other rule
\* as it was, and returns no error when the site has no rule for the path.
C29_RemoveAlwaysDeletes ==
  fnRun.pc = "removed" =>
    /\ basic_auths = fnRun.before \ NamedRules
    /\ (NamedRules = {} /\ fnRun.failAt = "none") => last.err = ""

\* C29 amended: outside dry-run RemoveBasicAuth deletes exactly the rules of
\* the site with the slash-normalized path and fails only when the reload
\* fails; in dry-run it deletes nothing and returns no error.
C29_RemoveIsPathScoped ==
  fnRun.pc = "removed" =>
    /\ basic_auths = (IF fnRun.dry THEN fnRun.before ELSE fnRun.before \ NamedRules)
    /\ fnRun.failAt = "none" => last.err = ""
    /\ last.err \in {"", "failed to reload Caddy"}

\* C29 witness: a removal outside dry-run deleted the rules of two users on
\* one path and left a rule behind.
C29_Witness ==
  /\ fnRun.pc = "removed" /\ ~fnRun.dry /\ last.err = ""
  /\ Cardinality(NamedRules) = 2
  /\ basic_auths # {}

(***************************************************************************)
(* migrate: the runs that must leave the store and its file alone.         *)
(***************************************************************************)
\* the run was held back: sites already stored and no --force, dry-run, or
\* the answer to the prompt was not yes
MigrateHeldBack ==
  \/ migRun.before # {} /\ ~migRun.force
  \/ last.dry
  \/ ~migRun.force /\ migRun.response \notin {"y", "yes"}

\* C30: when the store already holds a site and --force is not given, or
\* dry-run is set, or the operator declines the confirmation, runMigrate
\* creates no site record and no auth rule and writes no backup.
C30_GuardedMigrateWritesNothing ==
  (migRun.pc = "done" /\ MigrateHeldBack) =>
    /\ sites = migRun.before
    /\ basic_auths = {}
    /\ nextId = Cardinality(migRun.before) + 1
    /\ ~migRun.stored
    /\ migRun.backup = "none"
    /\ last.err = ""

\* C30 witness: the scan found a site to migrate, the operator was asked and
\* said no; nothing was stored.
C30_Witness ==
  /\ migRun.pc = "done" /\ ~last.dry /\ ~migRun.force /\ migRun.response = "n"
  /\ migRun.scanned # <<>>
  /\ sites = {} /\ migRun.backup = "none"

====
